---- MODULE Spec2Model ----
(***************************************************************************)
(* Runtime-truth pipeline of claw-control-room: event model, collector,    *)
(* reducer (materializer), snapshot file and the payload builder's runtime *)
(* source selection.                                                       *)
(*                                                                         *)
(* Conventions.  A Python value that is None / missing / not of the        *)
(* expected type is written NoneMs for an integer field and NoneStr for a  *)
(* string field (the code treats None and "" alike wherever it uses `or`). *)
(* Timestamps are natural numbers of milliseconds.  Strings are compared   *)
(* through StrRank, their position in StringsInOrder, which lists the      *)
(* strings of the model in Python's (code point) order.                    *)
(***************************************************************************)
EXTENDS Integers, Sequences, FiniteSets, TLC

VARIABLES
    events,         \* reduce_events: the `events` argument, in the caller's order
    now_ms,         \* reduce_events: the `now_ms` argument
    stale_ms,       \* reduce_events: the `stale_ms` argument
    pc,             \* reduce_events: position ("fold", "sweep", "done"; "off" outside SpecReduce)
    sorted,         \* reduce_events: sort_events(events), the list the loop walks
    idx,            \* reduce_events: index of the next event of `sorted` to fold
    active,         \* reduce_events: the `active` dict (run key -> merged state)
    terminals,      \* reduce_events: the `terminals` dict (run key -> first terminal)
    dropped_stale,  \* reduce_events: the dropped-stale counter
    active_rows,    \* reduce_events: the returned, sorted list of rows
    files,          \* the producer files: jobs_file, sessions_file, runs_dir, subagent_file
    journal,        \* the lines of the runtime-events journal file
    append_arg,     \* append_new_events: the `events` argument of the last call
    appended,       \* append_new_events: the value the last call returned
    runs,           \* number of collector invocations (main) so far
    changed,        \* whether a producer file changed since the last collector invocation
    col_pc,         \* two concurrent collectors: position of each ("idle", "collected", "loaded", "done")
    col_events,     \* two concurrent collectors: the events collect_events returned to each
    col_ids,        \* two concurrent collectors: the existing_ids each loaded
    runtime_state_file, \* the snapshot file runtime-state.json
    clock,          \* the wall clock, in milliseconds
    ticks,          \* number of clock advances so far
    mat_pc,         \* materialize_runtime_state: position ("idle", "computed", "opened")
    mat_state,      \* materialize_runtime_state: the runtime_state dict of the call
    prev_file,      \* the snapshot file as the call in progress found it (missing: no call in progress)
    last_revision,  \* revision number the last finished materialize call returned
    calls,          \* number of finished materialize_runtime_state calls
    runtime,        \* runtime_activity: the dict the last call returned
    reads,          \* number of runtime_activity calls so far (0 or 1)
    input_payload,  \* sanitize_payload_for_static_snapshot: the `payload` argument, as the caller holds it
    sanitized,      \* sanitize_payload_for_static_snapshot: the dict the call returned
    lane_scenario,  \* workstream lanes: which plan and which times of build ("short", "long")
    lane_clock,     \* workstream lanes: position in the times of build
    lane_version,   \* workstream lanes: which version of the plan and of the runtime is current
    plan_timeline,  \* the blocks of the daily plan (parse_daily_plan_blocks)
    plan_jobs,      \* the jobs of jobs.json with their next run
    lane_runtime,   \* the runtime dict handed to build_workstream_lanes
    lane_state_file, \* the lane-state file control-room-workstream-state.json
    lane_prior,     \* the lane-state file as the last build found it
    workstream,     \* the lanes the last build_workstream_lanes returned
    lane_events,    \* now_events and next_events of the last build
    lane_built,     \* whether the payload was built at the present time
    lane_builds,    \* number of builds so far
    left_at,        \* for each event id, the build at which it left now and the future events
    mcp_stdin,      \* MCP server: the frames on stdin that are not read yet
    mcp_stdout,     \* MCP server: the responses written to stdout and flushed
    mcp_state,      \* MCP server: where run_server stands, the message it holds, its exit code
    mcp_log,        \* MCP server: the messages read_message has returned
    producer_files, \* collector on damaged producer files: the files of the invocation
    collected,      \* collector on damaged producer files: how collect_events ended
    dashboard_files, \* build_payload on damaged inputs: the files of the call
    dashboard,      \* build_payload on damaged inputs: how the call ended
    event_label,    \* build_event: the status label a producer file carried
    built_event,    \* build_event: the label normalized and the event built from it
    call_args,      \* a function of the dashboard builder called on its own: the function and its arguments
    call_result,    \* a function of the dashboard builder called on its own: what the call returned
    materializers   \* two concurrent materialize_runtime_state calls: position, runtime_state and finished calls of each

reduceVars == <<events, now_ms, stale_ms, pc, sorted, idx, active, terminals,
                dropped_stale, active_rows>>

collectVars == <<files, journal, append_arg, appended, runs, changed>>

raceVars == <<col_pc, col_events, col_ids>>

snapshotVars == <<runtime_state_file, clock, ticks, mat_pc, mat_state, prev_file,
                  last_revision, calls, runtime, reads>>

laneVars == <<lane_scenario, lane_clock, lane_version, plan_timeline, plan_jobs, lane_runtime, lane_state_file,
              lane_prior, workstream, lane_events, lane_built, lane_builds, left_at>>

mcpVars == <<mcp_stdin, mcp_stdout, mcp_state, mcp_log>>

robustVars == <<producer_files, collected, dashboard_files, dashboard, event_label, built_event, call_args, call_result, materializers>>

viewVars == <<input_payload, sanitized, laneVars, mcpVars, robustVars>>

vars == <<reduceVars, collectVars, raceVars, snapshotVars, viewVars>>

\* What an action of one part leaves alone in the other parts.
OutsideReduce == <<collectVars, raceVars, snapshotVars, viewVars>>
OutsideCollect == <<reduceVars, raceVars, snapshotVars, viewVars>>
OutsideView == <<reduceVars, collectVars, raceVars, snapshotVars>>

----------------------------------------------------------------------------
(* Bounds of the model *)

MaxEvents == 3
MaxRuns == 2
MaxRunLines == 1
MaxCalls == 2

----------------------------------------------------------------------------
(* Values *)

NoneMs == -1
NoneStr == ""

\* Python truthiness of an int-or-None and of a str-or-None.
TruthyMs(v) == v # NoneMs /\ v # 0
TruthyStr(s) == s # NoneStr

\* Python `a or b` on strings and on ints.
OrStr(a, b) == IF TruthyStr(a) THEN a ELSE b
OrMs(a, b) == IF TruthyMs(a) THEN a ELSE b

Min(a, b) == IF a <= b THEN a ELSE b
Max(a, b) == IF a >= b THEN a ELSE b

\* Every string the model compares, in Python's string order.
StringsInOrder ==
    << "",
       "agent:main:cron:job-1:run:session-a",
       "agent:main:cron:job-1:run:session-b",
       "agent:main:cron:job-2:run:session-a",
       "agent:main:cron:job-2:run:session-b",
       "agent:main:main",
       "block 1",
       "block 2",
       "block 3",
       "block 4",
       "block 5",
       "block 6",
       "cancelled",
       "cron-runs",
       "cron:job-1:session-a",
       "cron:job-1:session-b",
       "cron:job-2:session-a",
       "cron:job-2:session-b",
       "deep work",
       "failed",
       "finished",
       "heartbeat",
       "job",
       "job-1",
       "job-1.jsonl:1",
       "job-1.jsonl:2",
       "job-1.jsonl:3",
       "job-1.jsonl:4",
       "job-2",
       "job-2.jsonl:1",
       "job-2.jsonl:2",
       "job-2.jsonl:3",
       "job-2.jsonl:4",
       "progress",
       "run-1",
       "runtime",
       "session-a",
       "session-b",
       "sessions-store",
       "sessions:agent:main:cron:job-1:run:session-a",
       "sessions:agent:main:cron:job-1:run:session-b",
       "sessions:agent:main:cron:job-2:run:session-a",
       "sessions:agent:main:cron:job-2:run:session-b",
       "sessions:agent:main:main",
       "stale_expired",
       "started",
       "subagent-registry",
       "subagent:run-1",
       "subagent:run-1:ended",
       "subagent:run-1:heartbeat",
       "subagent:run-1:started",
       "timed_out",
       "timeline",
       "transition block" >>

StrRank(s) == CHOOSE i \in 1..Len(StringsInOrder) : StringsInOrder[i] = s

StrLess(a, b) == StrRank(a) < StrRank(b)

----------------------------------------------------------------------------
(* scripts/lib/runtime_events.py *)

SOURCE_PRIORITY(source) ==
    CASE source = "cron-runs" -> 0
      [] source = "subagent-registry" -> 1
      [] source = "sessions-store" -> 2
      [] OTHER -> 50

TERMINAL_EVENT_TYPES == {"finished", "failed", "cancelled", "timed_out", "stale_expired"}

RUNNING_EVENT_TYPES == {"started", "heartbeat"}

\* value.strip().lower().replace("-", "_").replace(" ", "_") on the labels of the model.
StripLowerUnderscore(value) ==
    CASE value = "OK" -> "ok"
      [] value = "Timed-Out" -> "timed_out"
      [] value = " failed " -> "failed"
      [] value = "timed out" -> "timed_out"
      [] value = "FINISHED" -> "finished"
      [] value = "Canceled" -> "canceled"
      [] value = "stale expired" -> "stale_expired"
      [] value = "Started" -> "started"
      [] value = " heartbeat " -> "heartbeat"
      [] value = "Time-Out" -> "time_out"
      [] OTHER -> value

\* A variant that hands a label it does not know through in its normalized spelling.
normalize_terminal_event_type_PassThrough(value) ==
    IF value = NoneStr
    THEN "finished"
    ELSE LET normalized == StripLowerUnderscore(value)
         IN  IF normalized \in TERMINAL_EVENT_TYPES THEN normalized
             ELSE IF normalized \in {"ok", "success", "succeeded", "complete", "completed", "done"} THEN "finished"
             ELSE IF normalized \in {"timeout", "timedout", "timed_out"} THEN "timed_out"
             ELSE IF normalized \in {"error", "errored", "failure"} THEN "failed"
             ELSE IF normalized \in {"canceled"} THEN "cancelled"
             ELSE normalized

normalize_terminal_event_type(value) ==
    IF value = NoneStr
    THEN "finished"
    ELSE LET normalized == StripLowerUnderscore(value)
         IN  IF normalized \in TERMINAL_EVENT_TYPES THEN normalized
             ELSE IF normalized \in {"ok", "success", "succeeded", "complete", "completed", "done"} THEN "finished"
             ELSE IF normalized \in {"timeout", "timedout", "timed_out"} THEN "timed_out"
             ELSE IF normalized \in {"error", "errored", "failure"} THEN "failed"
             ELSE IF normalized \in {"canceled"} THEN "cancelled"
             ELSE "finished"

\* sha256 of "run_key|event_type|event_at_ms|source|source_offset": a digest that is
\* the same for the same material and differs for different material.  The digest is
\* written as the tuple of the material's parts; digests are ordered by IdLess.
deterministic_event_id(run_key, event_type, event_at_ms, source, source_offset) ==
    <<StrRank(run_key), StrRank(event_type), event_at_ms, StrRank(source), StrRank(source_offset)>>

\* A missing or empty eventId: str(event_id or "") = "".
NoneId == <<>>

RECURSIVE IdLess(_, _)
IdLess(a, b) ==
    IF b = <<>> THEN FALSE
    ELSE IF a = <<>> THEN TRUE
    ELSE IF Head(a) # Head(b) THEN Head(a) < Head(b)
    ELSE IdLess(Tail(a), Tail(b))

build_event(run_key, event_type, event_at_ms, source, source_offset, payload) ==
    LET normalized_type == IF event_type \notin RUNNING_EVENT_TYPES
                           THEN normalize_terminal_event_type(event_type)
                           ELSE event_type
    IN  [ eventId |-> deterministic_event_id(run_key, normalized_type, event_at_ms, source, source_offset),
          runKey |-> run_key,
          eventType |-> normalized_type,
          eventAtMs |-> event_at_ms,
          source |-> source,
          sourceOffset |-> source_offset,
          payload |-> payload ]

source_priority(source) == IF source = NoneStr THEN 99 ELSE SOURCE_PRIORITY(source)

event_sort_key(event) ==
    [ event_at_ms |-> IF event.eventAtMs = NoneMs THEN 0 ELSE event.eventAtMs,
      priority |-> source_priority(event.source),
      source_offset |-> event.sourceOffset,
      event_id |-> event.eventId ]

\* Python's tuple comparison of two sort keys.
SortKeyLess(a, b) ==
    IF a.event_at_ms # b.event_at_ms THEN a.event_at_ms < b.event_at_ms
    ELSE IF a.priority # b.priority THEN a.priority < b.priority
    ELSE IF a.source_offset # b.source_offset THEN StrLess(a.source_offset, b.source_offset)
    ELSE IdLess(a.event_id, b.event_id)

\* sorted() is stable: an element goes behind every element whose key is not greater.
InsertByKey(s, e) ==
    LET n == Cardinality({i \in 1..Len(s) : ~SortKeyLess(event_sort_key(e), event_sort_key(s[i]))})
    IN  SubSeq(s, 1, n) \o <<e>> \o SubSeq(s, n + 1, Len(s))

\* A variant that walks the events in the order the caller gave them.
sort_events_AsGiven(evs) == evs

RECURSIVE sort_events(_)
sort_events(evs) ==
    IF evs = <<>> THEN <<>>
    ELSE InsertByKey(sort_events(SubSeq(evs, 1, Len(evs) - 1)), evs[Len(evs)])

is_terminal_event_type(event_type) == event_type \in TERMINAL_EVENT_TYPES

----------------------------------------------------------------------------
(* scripts/runtime/materialize_runtime_state.py: reduce_events *)

\* A payload with no key set (also what a non-dict payload is replaced by).
EmptyPayload ==
    [ jobId |-> NoneStr, jobName |-> NoneStr, sessionId |-> NoneStr, sessionKey |-> NoneStr,
      summary |-> NoneStr, startedAtMs |-> NoneMs, lastSeenAtMs |-> NoneMs,
      activityType |-> NoneStr, model |-> NoneStr, thinking |-> NoneStr ]

\* active.get(run_key, {}): the merged state of a key, every field None when absent.
EmptyRow ==
    [ startedAtMs |-> NoneMs, lastSeenAtMs |-> NoneMs, firstSeenAtMs |-> NoneMs,
      jobId |-> NoneStr, jobName |-> NoneStr, sessionId |-> NoneStr, sessionKey |-> NoneStr,
      summary |-> NoneStr, activityType |-> NoneStr, model |-> NoneStr, thinking |-> NoneStr ]

\* The variant that takes the times of the latest event.
MergeRunning_Latest(row, event) ==
    [ row EXCEPT !.startedAtMs = IF event.payload.startedAtMs # NoneMs THEN event.payload.startedAtMs ELSE event.eventAtMs,
                 !.lastSeenAtMs = IF event.payload.lastSeenAtMs # NoneMs THEN event.payload.lastSeenAtMs ELSE event.eventAtMs,
                 !.firstSeenAtMs = IF row.firstSeenAtMs = NoneMs THEN event.eventAtMs ELSE row.firstSeenAtMs ]

\* Lines 138-165: merge one running event into the row of its key.
MergeRunning(row, event) ==
    LET payload == event.payload
        event_at_ms == event.eventAtMs
        candidate_start == IF payload.startedAtMs # NoneMs THEN payload.startedAtMs ELSE event_at_ms
        candidate_seen == IF payload.lastSeenAtMs # NoneMs THEN payload.lastSeenAtMs ELSE event_at_ms
    IN  [ startedAtMs |-> IF row.startedAtMs # NoneMs THEN Min(row.startedAtMs, candidate_start)
                          ELSE candidate_start,
          lastSeenAtMs |-> IF row.lastSeenAtMs # NoneMs THEN Max(row.lastSeenAtMs, candidate_seen)
                           ELSE candidate_seen,
          firstSeenAtMs |-> IF row.firstSeenAtMs = NoneMs THEN event_at_ms ELSE row.firstSeenAtMs,
          jobId |-> OrStr(payload.jobId, row.jobId),
          jobName |-> OrStr(payload.jobName, row.jobName),
          sessionId |-> OrStr(payload.sessionId, row.sessionId),
          sessionKey |-> OrStr(payload.sessionKey, row.sessionKey),
          summary |-> OrStr(OrStr(payload.summary, row.summary), payload.jobName),
          activityType |-> OrStr(OrStr(payload.activityType, row.activityType), "cron"),
          model |-> OrStr(payload.model, row.model),
          thinking |-> OrStr(payload.thinking, row.thinking) ]

\* FoldEvent without the absorbing check of lines 121-123.
FoldEvent_Reopens(st, event) ==
    LET run_key == event.runKey
        event_type == event.eventType
        event_at_ms == event.eventAtMs
    IN  IF run_key = NoneStr THEN st
        ELSE IF event_type = NoneStr \/ event_at_ms = NoneMs THEN st
        ELSE IF is_terminal_event_type(event_type)
        THEN [ active |-> [k \in DOMAIN st.active \ {run_key} |-> st.active[k]],
               terminals |-> (run_key :> [eventType |-> event_type, eventAtMs |-> event_at_ms])
                             @@ st.terminals ]
        ELSE IF event_type \notin RUNNING_EVENT_TYPES THEN st
        ELSE LET row == IF run_key \in DOMAIN st.active THEN st.active[run_key] ELSE EmptyRow
             IN  [ active |-> (run_key :> MergeRunning(row, event)) @@ st.active,
                   terminals |-> st.terminals ]

\* Lines 111-166: the loop body, on the pair of dicts st = [active, terminals].
FoldEvent(st, event) ==
    LET run_key == event.runKey
        event_type == event.eventType
        event_at_ms == event.eventAtMs
    IN  IF run_key = NoneStr THEN st
        ELSE IF event_type = NoneStr \/ event_at_ms = NoneMs THEN st
        ELSE IF run_key \in DOMAIN st.terminals THEN st
        ELSE IF is_terminal_event_type(event_type)
        THEN [ active |-> [k \in DOMAIN st.active \ {run_key} |-> st.active[k]],
               terminals |-> (run_key :> [eventType |-> event_type, eventAtMs |-> event_at_ms])
                             @@ st.terminals ]
        ELSE IF event_type \notin RUNNING_EVENT_TYPES THEN st
        ELSE LET row == IF run_key \in DOMAIN st.active THEN st.active[run_key] ELSE EmptyRow
             IN  [ active |-> (run_key :> MergeRunning(row, event)) @@ st.active,
                   terminals |-> st.terminals ]

\* IsStale with the boundary included.
IsStale_Inclusive(row, now, stale) == now - row.lastSeenAtMs >= stale

\* Line 176: the stale test of the sweep.
IsStale(row, now, stale) == now - row.lastSeenAtMs > stale

\* The sweep without the active.pop of line 181: the expired runs keep their rows.
StaleSweep_KeepsRows(act, term, now, stale) ==
    LET notInt == {k \in DOMAIN act : act[k].lastSeenAtMs = NoneMs}
        expired == {k \in DOMAIN act \ notInt : IsStale(act[k], now, stale)}
    IN  [ active |-> [k \in DOMAIN act \ notInt |-> act[k]],
          terminals |-> [k \in expired |-> [eventType |-> "stale_expired", eventAtMs |-> now]]
                        @@ term,
          dropped_stale |-> Cardinality(notInt) + Cardinality(expired) ]

\* Lines 168-182: the sweep over list(active.keys()), on [active, terminals, dropped_stale].
StaleSweep(act, term, now, stale) ==
    LET notInt == {k \in DOMAIN act : act[k].lastSeenAtMs = NoneMs}
        expired == {k \in DOMAIN act \ notInt : IsStale(act[k], now, stale)}
    IN  [ active |-> [k \in DOMAIN act \ (notInt \cup expired) |-> act[k]],
          terminals |-> [k \in expired |-> [eventType |-> "stale_expired", eventAtMs |-> now]]
                        @@ term,
          dropped_stale |-> Cardinality(notInt) + Cardinality(expired) ]

\* strftime("%Y-%m-%d %H:%M:%S") of the local time: the timestamp to whole seconds.
StartedAtLocal(started_at_ms) == started_at_ms \div 1000

make_runtime_row(run_key, state, now) ==
    LET started_at_ms == OrMs(OrMs(state.startedAtMs, state.firstSeenAtMs), now)
        last_seen_at_ms == OrMs(state.lastSeenAtMs, started_at_ms)
    IN  [ runKey |-> run_key,
          jobId |-> OrStr(state.jobId, run_key),
          jobName |-> OrStr(OrStr(state.jobName, state.summary), "Running activity"),
          sessionId |-> OrStr(OrStr(state.sessionId, state.sessionKey), run_key),
          sessionKey |-> OrStr(OrStr(state.sessionKey, state.sessionId), run_key),
          summary |-> OrStr(OrStr(state.summary, state.jobName), "Running activity"),
          startedAtMs |-> started_at_ms,
          lastSeenAtMs |-> last_seen_at_ms,
          startedAtLocal |-> StartedAtLocal(started_at_ms),
          runningForMs |-> Max(0, now - started_at_ms),
          activityType |-> OrStr(state.activityType, "cron"),
          model |-> state.model,
          thinking |-> state.thinking ]

\* Line 185: the order of the returned rows, (startedAtMs, runKey).
RowLess(a, b) ==
    IF a.startedAtMs # b.startedAtMs THEN a.startedAtMs < b.startedAtMs
    ELSE StrLess(a.runKey, b.runKey)

\* The variant that orders the rows by run key alone.
SortRows_ByRunKey(rows) ==
    [ i \in 1..Cardinality(rows) |->
        CHOOSE r \in rows : Cardinality({q \in rows : StrLess(q.runKey, r.runKey)}) = i - 1 ]

\* list.sort of rows with distinct run keys: the row with i-1 rows before it is the i-th.
SortRows(rows) ==
    [ i \in 1..Cardinality(rows) |->
        CHOOSE r \in rows : Cardinality({q \in rows : RowLess(q, r)}) = i - 1 ]

\* Line 184-185: the rows of the runs left in active.
MakeRows(act, now) == SortRows({make_runtime_row(k, act[k], now) : k \in DOMAIN act})

RECURSIVE FoldAll(_, _)
FoldAll(st, evs) == IF evs = <<>> THEN st ELSE FoldAll(FoldEvent(st, Head(evs)), Tail(evs))

EmptyDict == [k \in {} |-> NoneStr]

\* reduce_events as a function: (active_rows, terminals, dropped_stale).
reduce_events(evs, now, stale) ==
    LET folded == FoldAll([active |-> EmptyDict, terminals |-> EmptyDict], sort_events(evs))
        swept == StaleSweep(folded.active, folded.terminals, now, stale)
    IN  [ active_rows |-> MakeRows(swept.active, now),
          terminals |-> swept.terminals,
          dropped_stale |-> swept.dropped_stale ]

----------------------------------------------------------------------------
(* Inputs of reduce_events *)

EventTimes == {1, 2}
NowValues == {3, 4}
StaleValues == {1}

CronKey == "cron:job-1:session-a"
SubagentKey == "subagent:run-1"

\* The payload collect_session_events builds for a cron session heartbeat.
SessionPayload(job_name, model, at) ==
    [ jobId |-> "job-1", jobName |-> job_name, sessionId |-> "session-a",
      sessionKey |-> "agent:main:cron:job-1:run:session-a", summary |-> job_name,
      startedAtMs |-> at, lastSeenAtMs |-> at, activityType |-> "cron",
      model |-> model, thinking |-> NoneStr ]

\* The payload collect_subagent_events builds for started and heartbeat.
SubagentPayload(at) ==
    [ jobId |-> "subagent:run-1", jobName |-> "Background task", sessionId |-> "subagent:run-1",
      sessionKey |-> "subagent:run-1", summary |-> "Background task",
      startedAtMs |-> at, lastSeenAtMs |-> at, activityType |-> "subagent",
      model |-> NoneStr, thinking |-> NoneStr ]

\* Journal lines that are JSON objects but no well-formed event.
MalformedEvents ==
    { [ eventId |-> NoneId, runKey |-> NoneStr, eventType |-> "started", eventAtMs |-> 1,
        source |-> NoneStr, sourceOffset |-> NoneStr, payload |-> EmptyPayload ],
      [ eventId |-> NoneId, runKey |-> CronKey, eventType |-> "heartbeat", eventAtMs |-> NoneMs,
        source |-> "sessions-store", sourceOffset |-> NoneStr, payload |-> EmptyPayload ],
      [ eventId |-> NoneId, runKey |-> SubagentKey, eventType |-> "progress", eventAtMs |-> 2,
        source |-> "subagent-registry", sourceOffset |-> NoneStr, payload |-> EmptyPayload ] }

EventUniverse ==
    { build_event(CronKey, "heartbeat", at, "sessions-store",
                  "sessions:agent:main:cron:job-1:run:session-a", SessionPayload(n, NoneStr, at))
        : at \in EventTimes, n \in {"Job One", "Job One (renamed)"} }
    \cup { build_event(CronKey, "finished", at, "cron-runs", "job-1.jsonl:1", EmptyPayload)
             : at \in EventTimes }
    \cup { build_event(CronKey, "error", at, "cron-runs", "job-1.jsonl:2", EmptyPayload)
             : at \in EventTimes }
    \cup { build_event(SubagentKey, "started", at, "subagent-registry",
                       "subagent:run-1:started", EmptyPayload) : at \in EventTimes }
    \cup { build_event(SubagentKey, "heartbeat", at, "subagent-registry",
                       "subagent:run-1:heartbeat", SubagentPayload(at)) : at \in EventTimes }
    \cup { build_event(SubagentKey, "Timed-Out", at, "subagent-registry",
                       "subagent:run-1:ended", EmptyPayload) : at \in EventTimes }
    \cup MalformedEvents

EventLists == UNION { [1..n -> EventUniverse] : n \in 0..MaxEvents }

----------------------------------------------------------------------------
(* scripts/runtime/collect_runtime_events.py *)

(* Producer files.  A timestamp field holds [unit, v]:                      *)
(*   "ms"   an int above 10_000_000_000, v milliseconds after the epoch of  *)
(*          the model (a multiple of 1000 ms above that threshold);         *)
(*   "sec"  a positive int up to 10_000_000_000, v seconds after the epoch; *)
(*   "iso"  an ISO-8601 string, v milliseconds after the epoch;             *)
(*   "none" missing, null, a non-positive int or an unparseable string.     *)
Ms(t) == [unit |-> "ms", v |-> t]
Sec(t) == [unit |-> "sec", v |-> t]
NoTs == [unit |-> "none", v |-> 0]

JobIds == {"job-1", "job-2"}
SessionIds == {"session-a", "session-b"}
RunIds == {"run-1"}

\* Lines 33-55 (collector), in milliseconds after the epoch of the model.
parse_timestamp_ms(value) ==
    CASE value.unit = "ms" -> value.v
      [] value.unit = "sec" -> value.v * 1000
      [] value.unit = "iso" -> value.v
      [] OTHER -> NoneMs

\* Model names without "/" that start with "gpt-".
BareGptModels == {"gpt-5"}

normalize_runtime_model(value) ==
    IF value = NoneStr THEN NoneStr
    ELSE IF value \in BareGptModels THEN "openai-codex/" \o value
    ELSE value

normalize_runtime_thinking(value) ==
    IF value = NoneStr THEN NoneStr
    ELSE LET cleaned == CASE value = "High" -> "high"
                          [] value = "very-high" -> "very_high"
                          [] OTHER -> value
         IN  CASE cleaned = "min" -> "minimal"
               [] cleaned \in {"very_high", "maximum", "max"} -> "extra_high"
               [] OTHER -> cleaned

\* scripts/lib/runtime_reconciler.py, lines 12-30.
normalize_run_key(activity_type, job_id, session_id, run_id) ==
    IF activity_type = "cron"
    THEN IF job_id = NoneStr \/ session_id = NoneStr THEN NoneStr
         ELSE "cron:" \o job_id \o ":" \o session_id
    ELSE IF activity_type = "subagent"
    THEN IF run_id = NoneStr THEN NoneStr ELSE "subagent:" \o run_id
    ELSE NoneStr

\* The session key of a cron run, and CRON_RUN_SESSION_KEY_RE on the keys of the model.
SessionKeyOf(job_id, session_id) == "agent:main:cron:" \o job_id \o ":run:" \o session_id

NoMatch == [job_id |-> NoneStr, session_id |-> NoneStr]

CronRunMatch(session_key) ==
    IF \E j \in JobIds, x \in SessionIds : session_key = SessionKeyOf(j, x)
    THEN CHOOSE m \in [job_id : JobIds, session_id : SessionIds] :
             session_key = SessionKeyOf(m.job_id, m.session_id)
    ELSE NoMatch

\* f"Unknown job ({job_id[:8]})": the job ids of the model are shorter than 8 characters.
UnknownJobName(job_id) == "Unknown job (" \o job_id \o ")"

\* str(line_index) of a run file line.
IntStr(i) == CASE i = 1 -> "1" [] i = 2 -> "2" [] i = 3 -> "3" [] OTHER -> "4"

\* The strings of a set in StringsInOrder order, and a list's members that satisfy a test.
RECURSIVE SeqOfStrings(_)
SeqOfStrings(S) ==
    IF S = {} THEN <<>>
    ELSE LET first == CHOOSE a \in S : \A b \in S : StrRank(a) <= StrRank(b)
         IN  <<first>> \o SeqOfStrings(S \ {first})

RECURSIVE Concat(_)
Concat(lists) == IF lists = <<>> THEN <<>> ELSE Head(lists) \o Concat(Tail(lists))

\* Lines 86-105: jobs_file is [ok, jobs]; ok is FALSE for a missing or invalid file.
load_jobs(jobs_file) ==
    IF ~jobs_file.ok THEN EmptyDict
    ELSE [ job_id \in DOMAIN jobs_file.jobs |->
             [ name |-> OrStr(jobs_file.jobs[job_id].name, UnknownJobName(job_id)),
               model |-> normalize_runtime_model(jobs_file.jobs[job_id].model),
               thinking |-> normalize_runtime_thinking(jobs_file.jobs[job_id].thinking) ] ]

NoJobMeta == [name |-> NoneStr, model |-> NoneStr, thinking |-> NoneStr]

\* Lines 114-156: the events of one entry of the sessions store (none or one).
SessionEvents(session_key, meta, jobs_by_id) ==
    LET match == CronRunMatch(session_key)
        job_id == match.job_id
        session_id == match.session_id
        run_key == normalize_run_key("cron", job_id, session_id, NoneStr)
        event_at_ms == parse_timestamp_ms(meta.updatedAt)
        job_meta == IF job_id \in DOMAIN jobs_by_id THEN jobs_by_id[job_id] ELSE NoJobMeta
        job_name == OrStr(job_meta.name, UnknownJobName(job_id))
        payload == [ jobId |-> job_id, jobName |-> job_name, sessionId |-> session_id,
                     sessionKey |-> session_key, summary |-> job_name,
                     startedAtMs |-> event_at_ms, lastSeenAtMs |-> event_at_ms,
                     activityType |-> "cron",
                     model |-> OrStr(normalize_runtime_model(meta.model), job_meta.model),
                     thinking |-> OrStr(normalize_runtime_thinking(meta.thinking), job_meta.thinking) ]
    IN  IF match = NoMatch THEN <<>>
        ELSE IF run_key = NoneStr THEN <<>>
        ELSE IF event_at_ms = NoneMs THEN <<>>
        ELSE << build_event(run_key, "heartbeat", event_at_ms, "sessions-store",
                            "sessions:" \o session_key, payload) >>

\* Lines 108-158: sessions_file is [ok, doc]; doc maps session keys to their metadata.
collect_session_events(sessions_file, jobs_by_id) ==
    IF ~sessions_file.ok THEN <<>>
    ELSE LET keys == SeqOfStrings(DOMAIN sessions_file.doc)
         IN  Concat([i \in 1..Len(keys) |->
                        SessionEvents(keys[i], sessions_file.doc[keys[i]], jobs_by_id)])

\* Lines 168-216: the events of one line of the run file of job_id (none or one).
CronLineEvents(job_id, line_index, row) ==
    LET session_id == row.sessionId
        event_at_ms == OrMs(parse_timestamp_ms(row.finishedAtMs), parse_timestamp_ms(row.ts))
        run_key == normalize_run_key("cron", job_id, session_id, NoneStr)
        terminal_type == normalize_terminal_event_type(OrStr(OrStr(row.status, row.result), "finished"))
        payload == [EmptyPayload EXCEPT !.jobId = job_id, !.sessionId = session_id]
    IN  IF ~row.json THEN <<>>
        ELSE IF row.action # "finished" THEN <<>>
        ELSE IF session_id = NoneStr THEN <<>>
        ELSE IF event_at_ms = NoneMs THEN <<>>
        ELSE IF run_key = NoneStr THEN <<>>
        ELSE << build_event(run_key, terminal_type, event_at_ms, "cron-runs",
                            job_id \o ".jsonl:" \o IntStr(line_index), payload) >>

\* Lines 161-218: runs_dir maps the job id of each <job id>.jsonl file to its lines.
collect_cron_terminal_events(runs_dir) ==
    LET run_files == SeqOfStrings(DOMAIN runs_dir)
    IN  Concat([f \in 1..Len(run_files) |->
                  Concat([i \in 1..Len(runs_dir[run_files[f]]) |->
                            CronLineEvents(run_files[f], i, runs_dir[run_files[f]][i])])])

\* Lines 231-298: the events of one entry of the sub-agent registry.
SubagentEvents(run_id, entry) ==
    LET run_key == normalize_run_key("subagent", NoneStr, NoneStr, run_id)
        started_at_ms == OrMs(parse_timestamp_ms(entry.startedAt), parse_timestamp_ms(entry.createdAt))
        label == OrStr(entry.label, "Background task")
        session_key == IF entry.childSessionKey # NoneStr THEN entry.childSessionKey
                       ELSE "subagent:" \o run_id
        payload == [ jobId |-> "subagent:" \o run_id, jobName |-> label, summary |-> label,
                     sessionId |-> session_key, sessionKey |-> session_key,
                     startedAtMs |-> started_at_ms,
                     lastSeenAtMs |-> OrMs(parse_timestamp_ms(entry.updatedAt), started_at_ms),
                     activityType |-> "subagent",
                     model |-> normalize_runtime_model(OrStr(entry.model, entry.agentModel)),
                     thinking |-> normalize_runtime_thinking(entry.thinking) ]
        heartbeat_at_ms == OrMs(parse_timestamp_ms(entry.updatedAt), started_at_ms)
        ended_at_ms == parse_timestamp_ms(entry.endedAt)
        terminal_type == normalize_terminal_event_type(OrStr(OrStr(entry.status, entry.endStatus), "finished"))
    IN  IF run_key = NoneStr THEN <<>>
        ELSE IF started_at_ms = NoneMs THEN <<>>
        ELSE << build_event(run_key, "started", started_at_ms, "subagent-registry",
                            "subagent:" \o run_id \o ":started", payload),
                build_event(run_key, "heartbeat", heartbeat_at_ms, "subagent-registry",
                            "subagent:" \o run_id \o ":heartbeat", payload) >>
             \o ( IF ended_at_ms # NoneMs
                  THEN << build_event(run_key, terminal_type, ended_at_ms, "subagent-registry",
                                      "subagent:" \o run_id \o ":ended",
                                      [EmptyPayload EXCEPT !.jobId = "subagent:" \o run_id,
                                                           !.sessionId = session_key]) >>
                  ELSE <<>> )

\* Lines 221-300: subagent_file is [ok, runs]; runs maps run ids to entries.
collect_subagent_events(subagent_file) ==
    IF ~subagent_file.ok THEN <<>>
    ELSE LET ids == SeqOfStrings(DOMAIN subagent_file.runs)
         IN  Concat([i \in 1..Len(ids) |-> SubagentEvents(ids[i], subagent_file.runs[ids[i]])])

\* Lines 324-336, on the four producer files.
collect_events(paths) ==
    LET jobs_by_id == load_jobs(paths.jobs_file)
    IN  sort_events( collect_session_events(paths.sessions_file, jobs_by_id)
                     \o collect_cron_terminal_events(paths.runs_dir)
                     \o collect_subagent_events(paths.subagent_file) )

\* A variant that finds no id in the journal.
load_existing_event_ids_Empty(lines) == {}

\* Lines 303-321: the ids of the journal's lines (a line is the event written to it).
load_existing_event_ids(lines) ==
    {lines[i].eventId : i \in {j \in 1..Len(lines) : lines[j].eventId # NoneId}}

\* A variant of lines 341-350 without line 349 (existing_ids.add).
RECURSIVE NewEvents_NoAdd(_, _)
NewEvents_NoAdd(existing_ids, evs) ==
    IF evs = <<>> THEN <<>>
    ELSE LET event == Head(evs)
         IN  IF event.eventId = NoneId \/ event.eventId \in existing_ids
             THEN NewEvents_NoAdd(existing_ids, Tail(evs))
             ELSE <<event>> \o NewEvents_NoAdd(existing_ids, Tail(evs))

\* Lines 341-350: the events to append, given the ids already known.
RECURSIVE NewEvents(_, _)
NewEvents(existing_ids, evs) ==
    IF evs = <<>> THEN <<>>
    ELSE LET event == Head(evs)
         IN  IF event.eventId = NoneId \/ event.eventId \in existing_ids
             THEN NewEvents(existing_ids, Tail(evs))
             ELSE <<event>> \o NewEvents(existing_ids \cup {event.eventId}, Tail(evs))

\* Lines 339-360 as a function of the journal's lines: the lines after the call.
append_new_events(lines, evs) == lines \o NewEvents(load_existing_event_ids(lines), evs)

\* materialize_runtime_state.py, lines 23-38.
read_events(lines) == sort_events(lines)

----------------------------------------------------------------------------
(* materialize_runtime_state.py: revisions and the snapshot file *)

\* Line 194, line 227: the default stale_ms of the materializer.
DEFAULT_STALE_MS == 600000

(* A revision string is [prefix, digits]: the text before the decimal digits *)
(* and the digits.  NoneRev is a missing or non-string revision.             *)
NoneRev == [prefix |-> NoneStr, digits |-> <<>>]

\* The decimal digits of n >= 0, most significant first.
RECURSIVE Digits(_)
Digits(n) == IF n < 10 THEN <<n>> ELSE Append(Digits(n \div 10), n % 10)

\* The format spec 08d: zero-padded on the left to at least 8 digits.
RECURSIVE ZeroPad(_, _)
ZeroPad(ds, width) == IF Len(ds) >= width THEN ds ELSE ZeroPad(<<0>> \o ds, width)

\* Line 210: f"rtv1-{revision_num:08d}".
FormatRevision(n) == [prefix |-> "rtv1-", digits |-> ZeroPad(Digits(n), 8)]

\* Line 62: int(match.group(1)).
RECURSIVE IntOfDigits(_)
IntOfDigits(ds) ==
    IF ds = <<>> THEN 0
    ELSE IntOfDigits(SubSeq(ds, 1, Len(ds) - 1)) * 10 + ds[Len(ds)]

\* Line 20: ^rtv1-(\d+)$.
REVISION_RE(revision) == revision.prefix = "rtv1-" /\ Len(revision.digits) >= 1

\* A JSON value in the place of activeRuns: a list of rows, or something else.
JsonList(rows) == [list |-> TRUE, rows |-> rows]
NotAList == [list |-> FALSE, rows |-> <<>>]

(* The JSON value a file's text denotes: kind is "dict" (an object with the  *)
(* fields below, a missing field being None), "list" (valid JSON, no object) *)
(* or "garbage" (no JSON).                                                   *)
NoDoc ==
    [ kind |-> "garbage", status |-> NoneStr, isIdle |-> TRUE, activeCount |-> 0,
      activeRuns |-> NotAList, checkedAtMs |-> NoneMs, source |-> NoneStr,
      revision |-> NoneRev, snapshotMode |-> NoneStr, degradedReason |-> NoneStr,
      materializedAtMs |-> NoneMs, terminalCount |-> 0, droppedStaleCount |-> 0 ]

(* A file: whether it exists, how much of its text is on disk ("none": the   *)
(* file is empty, "part": a proper prefix of the text, "all"), and the value *)
(* the whole text denotes.                                                   *)
MissingFile == [exists |-> FALSE, written |-> "none", doc |-> NoDoc]
WholeFile(doc) == [exists |-> TRUE, written |-> "all", doc |-> doc]

\* json.loads(path.read_text()) succeeds: the whole text is there and it is JSON.
JsonLoads(file) == file.written = "all" /\ file.doc.kind # "garbage"

\* A variant that always answers 0.
parse_revision_number_Zero(file) == 0

\* Lines 41-64.
parse_revision_number(file) ==
    IF ~file.exists THEN 0
    ELSE IF ~JsonLoads(file) THEN 0
    ELSE IF file.doc.kind # "dict" THEN 0
    ELSE IF file.doc.revision = NoneRev THEN 0
    ELSE IF ~REVISION_RE(file.doc.revision) THEN 0
    ELSE IntOfDigits(file.doc.revision.digits)

\* Lines 196-216: the runtime_state dict of a call, from the journal's lines and the
\* snapshot file as the call reads them.
materialize_runtime_state(lines, file, now, stale) ==
    LET reduced == reduce_events(read_events(lines), now, stale)
        revision_num == parse_revision_number(file) + 1
    IN  [ kind |-> "dict",
          status |-> IF reduced.active_rows # <<>> THEN "running" ELSE "idle",
          isIdle |-> Len(reduced.active_rows) = 0,
          activeCount |-> Len(reduced.active_rows),
          activeRuns |-> JsonList(reduced.active_rows),
          checkedAtMs |-> now,
          source |-> "materialized-ledger",
          revision |-> FormatRevision(revision_num),
          snapshotMode |-> "live",
          degradedReason |-> NoneStr,
          materializedAtMs |-> now,
          terminalCount |-> Cardinality(DOMAIN reduced.terminals),
          droppedStaleCount |-> reduced.dropped_stale ]

----------------------------------------------------------------------------
(* scripts/lib/status_builder.py and scripts/lib/runtime_reconciler.py *)

\* status_builder.py, line 63.
RUNTIME_STALE_MS == 600000
\* status_builder.py, line 64.
RUNTIME_MATERIALIZED_MAX_AGE_MS == 90000
\* status_builder.py, line 1841: the default max_age_ms of runtime_activity.
RUNTIME_MAX_AGE_MS == 21600000

\* status_builder.py, lines 84-86.
EXCLUDED_RUNTIME_JOB_NAME_SUBSTRINGS == {"control room status publish"}

\* str.lower() on the strings of the model that hold upper-case letters.
Lower(s) ==
    CASE s = "Job One" -> "job one"
      [] s = "Job One (renamed)" -> "job one (renamed)"
      [] s = "Control room status publish (gist backend)" -> "control room status publish (gist backend)"
      [] s = "Unknown job (job-1)" -> "unknown job (job-1)"
      [] s = "Unknown job (job-2)" -> "unknown job (job-2)"
      [] s = "Subagent task (run-1)" -> "subagent task (run-1)"
      [] s = "Background task" -> "background task"
      [] s = "Transition block" -> "transition block"
      [] s = "Running activity" -> "running activity"
      [] OTHER -> s

\* `token in s` on the lower-cased strings of the model.
Contains(s, token) ==
    <<s, token>> \in { <<"control room status publish (gist backend)", "control room status publish">> }

\* Lines 1907-1908: the job name holds an excluded token.
ExcludedJobName(job_name) ==
    \E token \in EXCLUDED_RUNTIME_JOB_NAME_SUBSTRINGS : Contains(Lower(job_name), token)

\* The epoch-seconds int of a "sec" stamp read as milliseconds: a time long before
\* the epoch of the model.
LongAgoMs == -2000000000

\* status_builder.py, lines 1270-1288: an int is returned as it is.
sb_parse_timestamp_ms(value) ==
    CASE value.unit = "ms" -> value.v
      [] value.unit = "sec" -> LongAgoMs + value.v
      [] value.unit = "iso" -> value.v
      [] OTHER -> NoneMs

\* A row of runtime output; a field the source's dict does not have is None.
RuntimeRow(run_key, job_id, job_name, session_id, session_key, summary, started_at_ms, last_seen_at_ms, activity_type, model, thinking) ==
    [ runKey |-> run_key, jobId |-> job_id, jobName |-> job_name, sessionId |-> session_id,
      sessionKey |-> session_key, summary |-> summary, startedAtMs |-> started_at_ms,
      lastSeenAtMs |-> last_seen_at_ms, startedAtLocal |-> NoneMs, runningForMs |-> NoneMs,
      activityType |-> activity_type, model |-> model, thinking |-> thinking ]

\* sort(key=(startedAtMs, runKey)) of a list of rows: a stable insertion sort.
RECURSIVE InsertRow(_, _)
InsertRow(row, rows) ==
    IF rows = <<>> THEN <<row>>
    ELSE IF RowLess(row, Head(rows)) THEN <<row>> \o rows
    ELSE <<Head(rows)>> \o InsertRow(row, Tail(rows))

RECURSIVE SortRowList(_)
SortRowList(rows) ==
    IF rows = <<>> THEN <<>>
    ELSE InsertRow(rows[Len(rows)], SortRowList(SubSeq(rows, 1, Len(rows) - 1)))

\* The dict runtime_activity returns; NoRuntime stands for None.
NoRuntime ==
    [ status |-> NoneStr, isIdle |-> TRUE, activeCount |-> 0, activeRuns |-> <<>>,
      checkedAtMs |-> NoneMs, source |-> NoneStr, revision |-> NoneRev,
      snapshotMode |-> NoneStr, degradedReason |-> NoneStr,
      droppedTerminalCount |-> NoneMs, droppedStaleCount |-> NoneMs ]

\* Lines 1795-1819: one row of the snapshot, for `now`; rows without an int startedAtMs
\* are skipped.
MaterializedRow(row, now) ==
    [ row EXCEPT !.runningForMs = Max(0, now - row.startedAtMs),
                 !.startedAtLocal = StartedAtLocal(row.startedAtMs),
                 !.summary = OrStr(OrStr(row.summary, row.jobName), "Running activity"),
                 !.model = OrStr(normalize_runtime_model(row.model), row.model),
                 !.thinking = OrStr(normalize_runtime_thinking(row.thinking), row.thinking) ]

\* SnapshotStale with the boundary included.
SnapshotStale_Inclusive(now, materialized_at_ms, max_age_ms) == now - materialized_at_ms >= max_age_ms

\* Line 1787: the age test.
SnapshotStale(now, materialized_at_ms, max_age_ms) == now - materialized_at_ms > max_age_ms

\* Lines 1765-1833: [runtime, reason]; runtime is NoRuntime where the code returns None.
load_materialized_runtime_state(file, now, max_age_ms) ==
    LET doc == file.doc
        materialized_at_ms == IF doc.materializedAtMs # NoneMs THEN doc.materializedAtMs
                              ELSE doc.checkedAtMs
        kept == SelectSeq(doc.activeRuns.rows, LAMBDA row : row.startedAtMs # NoneMs)
        rows == SortRowList([i \in 1..Len(kept) |-> MaterializedRow(kept[i], now)])
    IN  IF ~file.exists THEN [runtime |-> NoRuntime, reason |-> "materialized-state-missing"]
        ELSE IF ~JsonLoads(file) THEN [runtime |-> NoRuntime, reason |-> "materialized-state-invalid"]
        ELSE IF doc.kind # "dict"
        THEN [runtime |-> NoRuntime, reason |-> "materialized-state-unexpected-shape"]
        ELSE IF materialized_at_ms = NoneMs
        THEN [runtime |-> NoRuntime, reason |-> "materialized-state-missing-timestamp"]
        ELSE IF SnapshotStale(now, materialized_at_ms, max_age_ms)
        THEN [runtime |-> NoRuntime, reason |-> "materialized-state-stale"]
        ELSE IF ~doc.activeRuns.list
        THEN [runtime |-> NoRuntime, reason |-> "materialized-state-missing-active-runs"]
        ELSE [ runtime |->
                 [ status |-> IF rows # <<>> THEN "running" ELSE "idle",
                   isIdle |-> Len(rows) = 0,
                   activeCount |-> Len(rows),
                   activeRuns |-> rows,
                   checkedAtMs |-> now,
                   source |-> "materialized-ledger",
                   revision |-> IF doc.revision # NoneRev THEN doc.revision ELSE FormatRevision(0),
                   snapshotMode |-> OrStr(doc.snapshotMode, "live"),
                   degradedReason |-> doc.degradedReason,
                   droppedTerminalCount |-> NoneMs,
                   droppedStaleCount |-> NoneMs ],
               reason |-> NoneStr ]

\* Lines 1857-1873: jobs_by_id of the live path (the name defaults to "").
sb_jobs_by_id(jobs_file) ==
    IF ~jobs_file.ok THEN EmptyDict
    ELSE [ job_id \in DOMAIN jobs_file.jobs |->
             [ name |-> jobs_file.jobs[job_id].name,
               model |-> normalize_runtime_model(jobs_file.jobs[job_id].model),
               thinking |-> normalize_runtime_thinking(jobs_file.jobs[job_id].thinking) ] ]

\* Lines 1655-1665 and 1724-1734: the terminal type of a status string.
sb_terminal_type(raw) ==
    LET terminal_type == Lower(OrStr(raw, "finished"))
    IN  IF terminal_type \in {"ok", "success", "completed", "done"} THEN "finished"
        ELSE IF terminal_type \in {"cancelled", "canceled"} THEN "cancelled"
        ELSE IF terminal_type \in {"timeout", "timedout", "timed_out"} THEN "timed_out"
        ELSE IF terminal_type \in {"failed", "error", "errored"} THEN "failed"
        ELSE IF terminal_type \notin {"finished", "failed", "cancelled", "timed_out"} THEN "finished"
        ELSE terminal_type

\* Lines 1634-1673: the terminal events of one line of the run file of job_id.
sb_CronLineEvents(job_id, row) ==
    LET session_id == row.sessionId
        run_key == normalize_run_key("cron", job_id, session_id, NoneStr)
        event_at_ms == OrMs(sb_parse_timestamp_ms(row.finishedAtMs), sb_parse_timestamp_ms(row.ts))
    IN  IF ~row.json \/ row.action # "finished" THEN <<>>
        ELSE IF session_id = NoneStr THEN <<>>
        ELSE IF run_key = NoneStr THEN <<>>
        ELSE IF event_at_ms = NoneMs THEN <<>>
        ELSE << [ runKey |-> run_key,
                  eventType |-> sb_terminal_type(OrStr(row.status, row.result)),
                  eventAtMs |-> event_at_ms ] >>

\* Lines 1614-1676 (status_builder.py).
sb_collect_cron_terminal_events(job_id, runs_dir) ==
    IF job_id \notin DOMAIN runs_dir THEN <<>>
    ELSE Concat([i \in 1..Len(runs_dir[job_id]) |-> sb_CronLineEvents(job_id, runs_dir[job_id][i])])

\* Lines 1552-1577, for entries that hold no task, invokeCommand or command.
resolve_subagent_label(entry, run_id) ==
    IF entry.label # NoneStr /\ Lower(entry.label) # "background task" THEN entry.label
    ELSE IF entry.childSessionKey # NoneStr THEN "Subagent task (" \o entry.childSessionKey \o ")"
    ELSE "Subagent task (" \o run_id \o ")"

\* Lines 1698-1760: the signals of one entry of the registry.
SubagentSignals(run_id, entry) ==
    LET run_key == normalize_run_key("subagent", NoneStr, NoneStr, run_id)
        started == sb_parse_timestamp_ms(entry.startedAt)
        started_at_ms == IF started # NoneMs THEN started ELSE sb_parse_timestamp_ms(entry.createdAt)
        ended_at_ms == sb_parse_timestamp_ms(entry.endedAt)
        label == resolve_subagent_label(entry, run_id)
        session_key == IF entry.childSessionKey # NoneStr THEN entry.childSessionKey
                       ELSE "subagent:" \o run_id
    IN  IF run_key = NoneStr \/ started_at_ms = NoneMs
        THEN [candidates |-> <<>>, terminals |-> <<>>]
        ELSE IF ended_at_ms # NoneMs
        THEN [ candidates |-> <<>>,
               terminals |-> << [ runKey |-> run_key,
                                  eventType |-> sb_terminal_type(OrStr(entry.status, entry.endStatus)),
                                  eventAtMs |-> ended_at_ms ] >> ]
        ELSE [ candidates |->
                 << RuntimeRow(run_key, "subagent:" \o run_id, label, session_key, session_key,
                               label, started_at_ms,
                               OrMs(sb_parse_timestamp_ms(entry.updatedAt), started_at_ms),
                               "subagent",
                               normalize_runtime_model(OrStr(entry.model, entry.agentModel)),
                               normalize_runtime_thinking(entry.thinking)) >>,
               terminals |-> <<>> ]

\* Lines 1679-1762.
collect_subagent_runtime_signals(subagent_file) ==
    IF ~subagent_file.ok THEN [candidates |-> <<>>, terminals |-> <<>>]
    ELSE LET ids == SeqOfStrings(DOMAIN subagent_file.runs)
             each == [i \in 1..Len(ids) |-> SubagentSignals(ids[i], subagent_file.runs[ids[i]])]
         IN  [ candidates |-> Concat([i \in 1..Len(ids) |-> each[i].candidates]),
               terminals |-> Concat([i \in 1..Len(ids) |-> each[i].terminals]) ]

\* Lines 1888-1931: the candidate and the terminal events of one entry of the sessions
\* store.
LiveSessionSignals(session_key, meta, jobs_by_id, runs_dir) ==
    LET match == CronRunMatch(session_key)
        job_id == match.job_id
        session_id == match.session_id
        started_at_ms == sb_parse_timestamp_ms(meta.updatedAt)
        run_key == normalize_run_key("cron", job_id, session_id, NoneStr)
        job_meta == IF job_id \in DOMAIN jobs_by_id THEN jobs_by_id[job_id] ELSE NoJobMeta
        job_name == OrStr(job_meta.name, UnknownJobName(job_id))
    IN  IF match = NoMatch \/ started_at_ms = NoneMs \/ run_key = NoneStr
        THEN [candidates |-> <<>>, terminals |-> <<>>]
        ELSE IF ExcludedJobName(job_name)
        THEN [candidates |-> <<>>, terminals |-> <<>>]
        ELSE [ candidates |->
                 << RuntimeRow(run_key, job_id, job_name, session_id, session_key, job_name,
                               started_at_ms, started_at_ms, "cron",
                               OrStr(normalize_runtime_model(meta.model), job_meta.model),
                               OrStr(normalize_runtime_thinking(meta.thinking), job_meta.thinking)) >>,
               terminals |-> sb_collect_cron_terminal_events(job_id, runs_dir) ]

\* runtime_reconciler.py, lines 33-49.
normalize_candidate(row) ==
    LET last_seen_at_ms == IF row.lastSeenAtMs = NoneMs THEN row.startedAtMs ELSE row.lastSeenAtMs
    IN  [row EXCEPT !.lastSeenAtMs = Max(last_seen_at_ms, row.startedAtMs)]

\* runtime_reconciler.py, lines 69-75: a later candidate of a run key fills what the
\* earlier one left empty.
MergeCandidate(current, candidate) ==
    [ current EXCEPT !.startedAtMs = Min(current.startedAtMs, candidate.startedAtMs),
                     !.lastSeenAtMs = Max(current.lastSeenAtMs, candidate.lastSeenAtMs),
                     !.jobName = OrStr(current.jobName, candidate.jobName),
                     !.summary = OrStr(current.summary, candidate.summary),
                     !.sessionId = OrStr(current.sessionId, candidate.sessionId),
                     !.sessionKey = OrStr(current.sessionKey, candidate.sessionKey),
                     !.jobId = OrStr(current.jobId, candidate.jobId),
                     !.activityType = OrStr(current.activityType, candidate.activityType),
                     !.model = OrStr(current.model, candidate.model),
                     !.thinking = OrStr(current.thinking, candidate.thinking) ]

\* runtime_reconciler.py, lines 56-77: by_run_key after the rows.
RECURSIVE CandidatesByRunKey(_, _)
CandidatesByRunKey(by_run_key, rows) ==
    IF rows = <<>> THEN by_run_key
    ELSE LET raw == Head(rows)
         IN  IF raw.runKey = NoneStr \/ raw.startedAtMs = NoneMs
             THEN CandidatesByRunKey(by_run_key, Tail(rows))
             ELSE LET candidate == normalize_candidate(raw)
                      run_key == candidate.runKey
                      merged == IF run_key \in DOMAIN by_run_key
                                THEN MergeCandidate(by_run_key[run_key], candidate)
                                ELSE candidate
                  IN  CandidatesByRunKey((run_key :> merged) @@ by_run_key, Tail(rows))

\* runtime_reconciler.py, lines 52-79.
collect_candidates(rows) ==
    LET by_run_key == CandidatesByRunKey(EmptyDict, rows)
    IN  SortRows({by_run_key[k] : k \in DOMAIN by_run_key})

\* runtime_reconciler.py, lines 82-109: the latest terminal event of each run key.
RECURSIVE collect_terminals(_, _)
collect_terminals(found, evs) ==
    IF evs = <<>> THEN found
    ELSE LET raw == Head(evs)
             run_key == raw.runKey
         IN  IF run_key = NoneStr \/ ~is_terminal_event_type(raw.eventType) \/ raw.eventAtMs = NoneMs
             THEN collect_terminals(found, Tail(evs))
             ELSE IF run_key \notin DOMAIN found \/ raw.eventAtMs >= found[run_key].eventAtMs
             THEN collect_terminals((run_key :> raw) @@ found, Tail(evs))
             ELSE collect_terminals(found, Tail(evs))

\* runtime_reconciler.py, lines 112-157.
reconcile(now, candidates, terminal_events, stale) ==
    LET normalized == collect_candidates(candidates)
        found == collect_terminals(EmptyDict, terminal_events)
        ended(row) == row.runKey \in DOMAIN found /\ found[row.runKey].eventAtMs >= row.startedAtMs
        expired(row) == ~ended(row) /\ now - row.lastSeenAtMs > stale
        kept == SelectSeq(normalized, LAMBDA row : ~ended(row) /\ ~expired(row))
        active_rows_ == [ i \in 1..Len(kept) |->
                            [ kept[i] EXCEPT !.runningForMs = Max(0, now - kept[i].startedAtMs),
                                             !.startedAtLocal = StartedAtLocal(kept[i].startedAtMs) ] ]
    IN  [ activeRuns |-> SortRowList(active_rows_),
          activeCount |-> Len(kept),
          droppedTerminalCount |-> Len(SelectSeq(normalized, ended)),
          droppedStaleCount |-> Len(SelectSeq(normalized, expired)),
          terminalCount |-> Cardinality(DOMAIN found) ]

\* status_builder.py, lines 1857-1980: the live path of runtime_activity;
\* materialized_reason is the reason load_materialized_runtime_state gave.
LiveRuntime(paths, now, materialized_reason) ==
    LET jobs_by_id == sb_jobs_by_id(paths.jobs_file)
        keys == IF paths.sessions_file.ok THEN SeqOfStrings(DOMAIN paths.sessions_file.doc) ELSE <<>>
        each == [ i \in 1..Len(keys) |->
                    LiveSessionSignals(keys[i], paths.sessions_file.doc[keys[i]], jobs_by_id,
                                       paths.runs_dir) ]
        subagent_signals == collect_subagent_runtime_signals(paths.subagent_file)
        candidates == Concat([i \in 1..Len(keys) |-> each[i].candidates])
                      \o subagent_signals.candidates
        terminal_events == Concat([i \in 1..Len(keys) |-> each[i].terminals])
                           \o subagent_signals.terminals
        reconciled == reconcile(now, candidates, terminal_events,
                                Min(RUNTIME_MAX_AGE_MS, RUNTIME_STALE_MS))
        active_runs == [ i \in 1..Len(reconciled.activeRuns) |->
                           [ reconciled.activeRuns[i] EXCEPT !.runKey = NoneStr,
                                                             !.lastSeenAtMs = NoneMs ] ]
        sessions_reason == IF paths.sessions_file.ok THEN NoneStr ELSE "sessions-store-missing"
    IN  [ status |-> IF active_runs # <<>> THEN "running" ELSE "idle",
          isIdle |-> Len(active_runs) = 0,
          activeCount |-> Len(active_runs),
          activeRuns |-> active_runs,
          checkedAtMs |-> now,
          source |-> "live-reconciler",
          revision |-> FormatRevision(now),
          snapshotMode |-> "live",
          degradedReason |-> IF sessions_reason = NoneStr THEN materialized_reason
                             ELSE materialized_reason \o ", " \o sessions_reason,
          droppedTerminalCount |-> reconciled.droppedTerminalCount,
          droppedStaleCount |-> reconciled.droppedStaleCount ]

\* status_builder.py, lines 1836-1980, as build_payload calls it (line 2012), on the
\* producer files, the snapshot file and the wall clock.
runtime_activity(paths, file, now) ==
    LET loaded == load_materialized_runtime_state(file, now, RUNTIME_MATERIALIZED_MAX_AGE_MS)
    IN  IF loaded.runtime # NoRuntime THEN loaded.runtime
        ELSE LiveRuntime(paths, now, loaded.reason)

----------------------------------------------------------------------------
(* The producers: what the cron runner, the session store and the sub-agent registry
   do to their files between invocations *)

ProducerTimes == {1, 2}

PublishJobName == "Control room status publish (gist backend)"

InitFiles ==
    [ jobs_file |->
        [ ok |-> TRUE,
          jobs |-> [ j \in JobIds |->
                       IF j = "job-1"
                       THEN [name |-> "Job One", model |-> "gpt-5", thinking |-> "High"]
                       ELSE [name |-> PublishJobName, model |-> NoneStr, thinking |-> NoneStr] ] ],
      sessions_file |->
        [ ok |-> TRUE,
          doc |-> ("agent:main:main" :> [updatedAt |-> Ms(1), model |-> NoneStr, thinking |-> NoneStr]) ],
      runs_dir |-> EmptyDict,
      subagent_file |-> [ok |-> TRUE, runs |-> EmptyDict] ]

NoEntry ==
    [ startedAt |-> NoTs, createdAt |-> NoTs, updatedAt |-> NoTs, endedAt |-> NoTs,
      label |-> NoneStr, childSessionKey |-> NoneStr, model |-> NoneStr, agentModel |-> NoneStr,
      thinking |-> NoneStr, status |-> NoneStr, endStatus |-> NoneStr ]

\* A producer writes its own file and nothing else.
ProducerFrame ==
    /\ changed' = TRUE
    /\ UNCHANGED <<journal, append_arg, appended, runs, reduceVars, raceVars, snapshotVars, viewVars>>

\* The session store records activity of the cron session of job_id at time t.
SessionTouch(job_id, session_id, t) ==
    LET key == SessionKeyOf(job_id, session_id)
        doc == files.sessions_file.doc
    IN  /\ files.sessions_file.ok
        /\ key \in DOMAIN doc => doc[key].updatedAt.v < t
        /\ files' = [files EXCEPT !.sessions_file.doc =
                        (key :> [updatedAt |-> Ms(t), model |-> NoneStr, thinking |-> NoneStr]) @@ doc]
        /\ ProducerFrame

\* The jobs file is edited: job-1 gets a new name and loses its model.
JobsEdit ==
    /\ files.jobs_file.ok
    /\ files.jobs_file.jobs["job-1"].name = "Job One"
    /\ files' = [files EXCEPT !.jobs_file.jobs["job-1"] =
                    [name |-> "Job One (renamed)", model |-> NoneStr, thinking |-> "High"]]
    /\ ProducerFrame

\* The cron runner appends a "finished" record to the run file of job_id.
CronRunFinish(job_id, session_id, t, status) ==
    LET old == IF job_id \in DOMAIN files.runs_dir THEN files.runs_dir[job_id] ELSE <<>>
        row == [ json |-> TRUE, action |-> "finished", sessionId |-> session_id,
                 finishedAtMs |-> Ms(t), ts |-> NoTs, status |-> status, result |-> NoneStr ]
    IN  /\ Len(old) < MaxRunLines
        /\ files' = [files EXCEPT !.runs_dir = (job_id :> Append(old, row)) @@ files.runs_dir]
        /\ ProducerFrame

\* The sub-agent registry records the start, an update or the end of run-1.
SubagentAdvance(t) ==
    LET reg == files.subagent_file.runs
    IN  /\ files.subagent_file.ok
        /\ \/ /\ "run-1" \notin DOMAIN reg
              /\ files' = [files EXCEPT !.subagent_file.runs =
                              ("run-1" :> [NoEntry EXCEPT !.startedAt = Ms(t)]) @@ reg]
           \/ /\ "run-1" \in DOMAIN reg
              /\ reg["run-1"].endedAt = NoTs
              /\ reg["run-1"].startedAt.v < t
              /\ \/ files' = [files EXCEPT !.subagent_file.runs["run-1"].updatedAt = Ms(t)]
                 \/ files' = [files EXCEPT !.subagent_file.runs["run-1"].endedAt = Ms(t),
                                           !.subagent_file.runs["run-1"].status = "error"]
        /\ ProducerFrame

----------------------------------------------------------------------------
(* The parts of the state a specification does not use keep these values *)

ReduceOff ==
    /\ events = <<>>
    /\ now_ms = 0
    /\ stale_ms = 0
    /\ pc = "off"
    /\ sorted = <<>>
    /\ idx = 1
    /\ active = EmptyDict
    /\ terminals = EmptyDict
    /\ dropped_stale = 0
    /\ active_rows = <<>>

CollectOff ==
    /\ files = InitFiles
    /\ journal = <<>>
    /\ append_arg = <<>>
    /\ appended = 0
    /\ runs = 0
    /\ changed = FALSE

RaceOff ==
    /\ col_pc = [c \in {} |-> NoneStr]
    /\ col_events = [c \in {} |-> NoneStr]
    /\ col_ids = [c \in {} |-> NoneStr]

SnapshotOff ==
    /\ runtime_state_file = MissingFile
    /\ clock = 0
    /\ ticks = 0
    /\ mat_pc = "off"
    /\ mat_state = NoDoc
    /\ prev_file = MissingFile
    /\ last_revision = NoneMs
    /\ calls = 0
    /\ runtime = NoRuntime
    /\ reads = 0

\* No payload: the value of a result before the call.
NoPayload == [runtime |-> [kind |-> "missing", doc |-> NoRuntime], other |-> NoneStr]

LaneOff ==
    /\ lane_scenario = NoneStr
    /\ lane_clock = 0
    /\ lane_version = NoneStr
    /\ plan_timeline = <<>>
    /\ plan_jobs = <<>>
    /\ lane_runtime = NoRuntime
    /\ lane_state_file = NoneStr
    /\ lane_prior = NoneStr
    /\ workstream = NoneStr
    /\ lane_events = NoneStr
    /\ lane_built = FALSE
    /\ lane_builds = 0
    /\ left_at = <<>>

McpOff ==
    /\ mcp_stdin = <<>>
    /\ mcp_stdout = <<>>
    /\ mcp_state = [pc |-> "off"]
    /\ mcp_log = <<>>

RobustOff ==
    /\ producer_files = NoneStr
    /\ collected = NoneStr
    /\ dashboard_files = NoneStr
    /\ dashboard = NoneStr
    /\ event_label = NoneStr
    /\ built_event = NoneStr
    /\ call_args = NoneStr
    /\ call_result = NoneStr
    /\ materializers = NoneStr

ViewOff ==
    /\ input_payload = NoPayload
    /\ sanitized = NoPayload
    /\ LaneOff
    /\ McpOff
    /\ RobustOff

----------------------------------------------------------------------------
(* reduce_events, one loop iteration per step *)

InitReduce ==
    /\ events \in EventLists
    /\ now_ms \in NowValues
    /\ stale_ms \in StaleValues
    /\ pc = "start"
    /\ sorted = <<>>
    /\ idx = 1
    /\ active = EmptyDict
    /\ terminals = EmptyDict
    /\ dropped_stale = 0
    /\ active_rows = <<>>
    /\ CollectOff
    /\ RaceOff
    /\ SnapshotOff
    /\ ViewOff

\* Line 111: for event in sort_events(events).
ReduceStart ==
    /\ pc = "start"
    /\ sorted' = sort_events(events)
    /\ pc' = "fold"
    /\ UNCHANGED <<events, now_ms, stale_ms, idx, active, terminals, dropped_stale, active_rows>>
    /\ UNCHANGED OutsideReduce

\* Lines 112-166: one iteration of the loop.
FoldStep ==
    /\ pc = "fold"
    /\ idx <= Len(sorted)
    /\ LET st == FoldEvent([active |-> active, terminals |-> terminals], sorted[idx])
       IN  /\ active' = st.active
           /\ terminals' = st.terminals
    /\ idx' = idx + 1
    /\ UNCHANGED <<events, now_ms, stale_ms, pc, sorted, dropped_stale, active_rows>>
    /\ UNCHANGED OutsideReduce

\* Lines 168-186: the stale sweep, the rows, the return.
ReduceFinish ==
    /\ pc = "fold"
    /\ idx > Len(sorted)
    /\ LET swept == StaleSweep(active, terminals, now_ms, stale_ms)
       IN  /\ active' = swept.active
           /\ terminals' = swept.terminals
           /\ dropped_stale' = swept.dropped_stale
           /\ active_rows' = MakeRows(swept.active, now_ms)
    /\ pc' = "done"
    /\ UNCHANGED <<events, now_ms, stale_ms, sorted, idx>>
    /\ UNCHANGED OutsideReduce

NextReduce == ReduceStart \/ FoldStep \/ ReduceFinish

SpecReduce == InitReduce /\ [][NextReduce]_vars

----------------------------------------------------------------------------
(* The collector, one invocation after the other *)

InitCollect ==
    /\ files = InitFiles
    /\ journal = <<>>
    /\ append_arg = <<>>
    /\ appended = 0
    /\ runs = 0
    /\ changed = FALSE
    /\ ReduceOff
    /\ RaceOff
    /\ SnapshotOff
    /\ ViewOff

\* Lines 363-380: main, collect_events followed by append_new_events.
CollectorRun ==
    /\ runs < MaxRuns
    /\ LET evs == collect_events(files)
       IN  /\ append_arg' = evs
           /\ journal' = append_new_events(journal, evs)
           /\ appended' = Len(NewEvents(load_existing_event_ids(journal), evs))
    /\ runs' = runs + 1
    /\ changed' = FALSE
    /\ UNCHANGED files
    /\ UNCHANGED OutsideCollect

SessionHeartbeat == \E t \in ProducerTimes : SessionTouch("job-1", "session-a", t)
CronRunEnds == \E t \in ProducerTimes : CronRunFinish("job-1", "session-a", t, "ok")
SubagentMoves == \E t \in ProducerTimes : SubagentAdvance(t)

NextCollect == SessionHeartbeat \/ JobsEdit \/ CronRunEnds \/ SubagentMoves \/ CollectorRun

SpecCollect == InitCollect /\ [][NextCollect]_vars

----------------------------------------------------------------------------
(* append_new_events, one call after the other on one journal *)

\* Events a caller hands to append_new_events: two share an id, one has none.
CallEvents ==
    { build_event(CronKey, "heartbeat", 1, "sessions-store",
                  "sessions:agent:main:cron:job-1:run:session-a", SessionPayload(n, NoneStr, 1))
        : n \in {"Job One", "Job One (renamed)"} }
    \cup { build_event(CronKey, "finished", 2, "cron-runs", "job-1.jsonl:1", EmptyPayload) }
    \cup { [ eventId |-> NoneId, runKey |-> CronKey, eventType |-> "heartbeat", eventAtMs |-> 2,
             source |-> "sessions-store", sourceOffset |-> NoneStr, payload |-> EmptyPayload ] }

CallLists == UNION { [1..n -> CallEvents] : n \in 0..MaxEvents }

InitAppend ==
    /\ files = InitFiles
    /\ journal = <<>>
    /\ append_arg = <<>>
    /\ appended = 0
    /\ runs = 0
    /\ changed = FALSE
    /\ ReduceOff
    /\ RaceOff
    /\ SnapshotOff
    /\ ViewOff

\* Lines 339-360: one call of append_new_events.
AppendCall ==
    \E evs \in CallLists :
        /\ append_arg' = evs
        /\ journal' = append_new_events(journal, evs)
        /\ appended' = Len(NewEvents(load_existing_event_ids(journal), evs))
        /\ UNCHANGED <<files, runs, changed>>
        /\ UNCHANGED OutsideCollect

NextAppend == AppendCall

SpecAppend == InitAppend /\ [][NextAppend]_vars

----------------------------------------------------------------------------
(* Two collector invocations on one journal, each in three steps *)

Collectors == {"c1", "c2"}

InitRace ==
    /\ files = InitFiles
    /\ journal = <<>>
    /\ append_arg = <<>>
    /\ appended = 0
    /\ runs = 0
    /\ changed = FALSE
    /\ col_pc = [c \in Collectors |-> "idle"]
    /\ col_events = [c \in Collectors |-> <<>>]
    /\ col_ids = [c \in Collectors |-> {}]
    /\ ReduceOff
    /\ SnapshotOff
    /\ ViewOff

RaceFrame == UNCHANGED <<files, append_arg, appended, runs, changed, reduceVars, snapshotVars, viewVars>>

\* collect_runtime_events.py, lines 372-377: the invocation reads the producer files.
Collect(c) ==
    /\ col_pc[c] = "idle"
    /\ col_events' = [col_events EXCEPT ![c] = collect_events(files)]
    /\ col_pc' = [col_pc EXCEPT ![c] = "collected"]
    /\ UNCHANGED <<journal, col_ids>>
    /\ RaceFrame

\* Line 340: append_new_events reads the journal.
LoadIds(c) ==
    /\ col_pc[c] = "collected"
    /\ col_ids' = [col_ids EXCEPT ![c] = load_existing_event_ids(journal)]
    /\ col_pc' = [col_pc EXCEPT ![c] = "loaded"]
    /\ UNCHANGED <<journal, col_events>>
    /\ RaceFrame

\* Lines 341-360: it appends, as whole lines, the events whose ids it did not load.
AppendLines(c) ==
    /\ col_pc[c] = "loaded"
    /\ journal' = journal \o NewEvents(col_ids[c], col_events[c])
    /\ col_pc' = [col_pc EXCEPT ![c] = "done"]
    /\ UNCHANGED <<col_events, col_ids>>
    /\ RaceFrame

CollectStep == \E c \in Collectors : Collect(c)
LoadIdsStep == \E c \in Collectors : LoadIds(c)
AppendStep == \E c \in Collectors : AppendLines(c)

NextRace == CollectStep \/ LoadIdsStep \/ AppendStep \/ SessionHeartbeat \/ JobsEdit \/ CronRunEnds

SpecCollectRace == InitRace /\ [][NextRace]_vars

----------------------------------------------------------------------------
(* Collector, materializer and payload builder on the same files *)

FirstClock == 3

\* A snapshot an earlier materializer wrote at time 1, with no active run.
OldSnapshot(revision) ==
    [ kind |-> "dict", status |-> "idle", isIdle |-> TRUE, activeCount |-> 0,
      activeRuns |-> JsonList(<<>>), checkedAtMs |-> 1, source |-> "materialized-ledger",
      revision |-> revision, snapshotMode |-> "live", degradedReason |-> NoneStr,
      materializedAtMs |-> 1, terminalCount |-> 0, droppedStaleCount |-> 0 ]

\* The snapshot file before the first call: missing, no JSON, JSON that is no object,
\* an empty object, a snapshot with a foreign revision, a snapshot at the last
\* 8-digit revision, an object without a list of active runs.
InitSnapshots ==
    { MissingFile,
      WholeFile(NoDoc),
      WholeFile([NoDoc EXCEPT !.kind = "list"]),
      WholeFile([NoDoc EXCEPT !.kind = "dict"]),
      WholeFile(OldSnapshot([prefix |-> "rtv2-", digits |-> <<5>>])),
      WholeFile(OldSnapshot(FormatRevision(99999999))),
      WholeFile([OldSnapshot(FormatRevision(7)) EXCEPT !.activeRuns = NotAList]) }

\* The producer files of the snapshot specification: no cron session, or one of job-1.
SnapshotFiles ==
    { InitFiles,
      [ InitFiles EXCEPT !.sessions_file.doc =
          (SessionKeyOf("job-1", "session-a") :>
              [updatedAt |-> Ms(2), model |-> NoneStr, thinking |-> NoneStr]) @@ @ ] }

InitSnapshot ==
    /\ files \in SnapshotFiles
    /\ journal = <<>>
    /\ append_arg = <<>>
    /\ appended = 0
    /\ runs = 0
    /\ changed = FALSE
    /\ runtime_state_file \in InitSnapshots
    /\ clock = FirstClock
    /\ ticks = 0
    /\ mat_pc = "idle"
    /\ mat_state = NoDoc
    /\ prev_file = MissingFile
    /\ last_revision = NoneMs
    /\ calls = 0
    /\ runtime = NoRuntime
    /\ reads = 0
    /\ ReduceOff
    /\ RaceOff
    /\ ViewOff

InitPayload ==
    /\ files = InitFiles
    /\ journal = <<>>
    /\ append_arg = <<>>
    /\ appended = 0
    /\ runs = 0
    /\ changed = FALSE
    /\ runtime_state_file = MissingFile
    /\ clock = FirstClock
    /\ ticks = 0
    /\ mat_pc = "idle"
    /\ mat_state = NoDoc
    /\ prev_file = MissingFile
    /\ last_revision = NoneMs
    /\ calls = 0
    /\ runtime = NoRuntime
    /\ reads = 0
    /\ ReduceOff
    /\ RaceOff
    /\ ViewOff

SnapshotFrame == UNCHANGED <<collectVars, reduceVars, raceVars, viewVars>>

\* Time passes: first the maximum age of a usable snapshot, then a millisecond more.
ClockSteps == <<RUNTIME_MATERIALIZED_MAX_AGE_MS, 1>>

Tick ==
    /\ reads = 0
    /\ ticks < Len(ClockSteps)
    /\ clock' = clock + ClockSteps[ticks + 1]
    /\ ticks' = ticks + 1
    /\ UNCHANGED <<runtime_state_file, mat_pc, mat_state, prev_file, last_revision, calls, runtime, reads>>
    /\ SnapshotFrame

\* materialize_runtime_state.py, lines 196-216: the call reads the journal and the
\* snapshot file and builds runtime_state.
MatBegin ==
    /\ reads = 0
    /\ mat_pc = "idle"
    /\ calls < MaxCalls
    /\ mat_state' = materialize_runtime_state(journal, runtime_state_file, clock, DEFAULT_STALE_MS)
    /\ prev_file' = runtime_state_file
    /\ mat_pc' = "computed"
    /\ UNCHANGED <<runtime_state_file, clock, ticks, last_revision, calls, runtime, reads>>
    /\ SnapshotFrame

\* Line 219, write_text: the file is opened for writing, which creates or empties it.
MatOpen ==
    /\ reads = 0
    /\ mat_pc = "computed"
    /\ runtime_state_file' = [exists |-> TRUE, written |-> "none", doc |-> mat_state]
    /\ mat_pc' = "opened"
    /\ UNCHANGED <<clock, ticks, mat_state, prev_file, last_revision, calls, runtime, reads>>
    /\ SnapshotFrame

\* Line 219, write_text: a text longer than the write buffer reaches the file in parts.
MatWritePart ==
    /\ reads = 0
    /\ mat_pc = "opened"
    /\ runtime_state_file.written = "none"
    /\ runtime_state_file' = [runtime_state_file EXCEPT !.written = "part"]
    /\ UNCHANGED <<clock, ticks, mat_pc, mat_state, prev_file, last_revision, calls, runtime, reads>>
    /\ SnapshotFrame

\* Lines 219-220: the text is written whole, the file closed, runtime_state returned.
MatWriteAll ==
    /\ reads = 0
    /\ mat_pc = "opened"
    /\ runtime_state_file' = [runtime_state_file EXCEPT !.written = "all"]
    /\ mat_pc' = "idle"
    /\ last_revision' = IntOfDigits(mat_state.revision.digits)
    /\ calls' = calls + 1
    /\ prev_file' = MissingFile
    /\ UNCHANGED <<clock, ticks, mat_state, runtime, reads>>
    /\ SnapshotFrame

\* status_builder.py, line 2012: build_payload calls runtime_activity.  The call writes
\* no file, so one call does not affect another: a behaviour ends with its call.
RuntimeActivity ==
    /\ reads = 0
    /\ runtime' = runtime_activity(files, runtime_state_file, clock)
    /\ reads' = reads + 1
    /\ UNCHANGED <<runtime_state_file, clock, ticks, mat_pc, mat_state, prev_file, last_revision, calls>>
    /\ SnapshotFrame

\* The producers and the collector, until the call of runtime_activity.
LatestProducerTime == CHOOSE t \in ProducerTimes : \A u \in ProducerTimes : u <= t

PayloadHeartbeat ==
    /\ reads = 0
    /\ \E job_id \in JobIds : SessionTouch(job_id, "session-a", LatestProducerTime)

PayloadCronRunEnds ==
    /\ reads = 0
    /\ CronRunFinish("job-1", "session-a", LatestProducerTime, "ok")

PayloadCollectorRun ==
    /\ reads = 0
    /\ CollectorRun

NextPayload ==
    \/ PayloadHeartbeat \/ PayloadCronRunEnds \/ PayloadCollectorRun
    \/ Tick \/ MatBegin \/ MatOpen \/ MatWritePart \/ MatWriteAll
    \/ RuntimeActivity

SpecPayload == InitPayload /\ [][NextPayload]_vars

NextSnapshot ==
    \/ PayloadCollectorRun
    \/ Tick \/ MatBegin \/ MatOpen \/ MatWritePart \/ MatWriteAll
    \/ RuntimeActivity

SpecSnapshot == InitSnapshot /\ [][NextSnapshot]_vars

----------------------------------------------------------------------------
(* The live reconciliation pass on the producer files, with no snapshot file *)

\* The cron runner appends a "finished" record that carries no time field, as the
\* record of test_runtime_activity_detects_active_runs (test_status_builder.py, 322-331).
CronRunFinishBare(job_id, session_id) ==
    LET old == IF job_id \in DOMAIN files.runs_dir THEN files.runs_dir[job_id] ELSE <<>>
        row == [ json |-> TRUE, action |-> "finished", sessionId |-> session_id,
                 finishedAtMs |-> NoTs, ts |-> NoTs, status |-> NoneStr, result |-> NoneStr ]
    IN  /\ Len(old) < MaxRunLines
        /\ files' = [files EXCEPT !.runs_dir = (job_id :> Append(old, row)) @@ files.runs_dir]
        /\ ProducerFrame

InitLive ==
    /\ files = InitFiles
    /\ journal = <<>>
    /\ append_arg = <<>>
    /\ appended = 0
    /\ runs = 0
    /\ changed = FALSE
    /\ runtime_state_file = MissingFile
    /\ clock = FirstClock
    /\ ticks = 0
    /\ mat_pc = "off"
    /\ mat_state = NoDoc
    /\ prev_file = MissingFile
    /\ last_revision = NoneMs
    /\ calls = 0
    /\ runtime = NoRuntime
    /\ reads = 0
    /\ ReduceOff
    /\ RaceOff
    /\ ViewOff

\* Time passes up to the stale window of the earliest producer time, then past it.
LiveClockSteps == <<RUNTIME_STALE_MS - 2, 1, 1>>

LiveTick ==
    /\ reads = 0
    /\ ticks < Len(LiveClockSteps)
    /\ clock' = clock + LiveClockSteps[ticks + 1]
    /\ ticks' = ticks + 1
    /\ UNCHANGED <<runtime_state_file, mat_pc, mat_state, prev_file, last_revision, calls, runtime, reads>>
    /\ SnapshotFrame

\* The cron sessions the session store holds in this specification.
LiveSessions == {<<"job-1", "session-a">>, <<"job-1", "session-b">>, <<"job-2", "session-a">>}

LiveHeartbeat ==
    /\ reads = 0
    /\ \E js \in LiveSessions, t \in ProducerTimes : SessionTouch(js[1], js[2], t)

LiveCronRunEnds ==
    /\ reads = 0
    /\ \E session_id \in SessionIds :
          \/ \E t \in ProducerTimes : CronRunFinish("job-1", session_id, t, "ok")
          \/ CronRunFinishBare("job-1", session_id)

LiveSubagentMoves ==
    /\ reads = 0
    /\ \E t \in ProducerTimes : SubagentAdvance(t)

\* status_builder.py, line 2012, with no snapshot file: the live path of
\* runtime_activity.
LivePass ==
    /\ reads = 0
    /\ runtime' = runtime_activity(files, runtime_state_file, clock)
    /\ reads' = reads + 1
    /\ UNCHANGED <<runtime_state_file, clock, ticks, mat_pc, mat_state, prev_file, last_revision, calls>>
    /\ SnapshotFrame

NextLive == LiveHeartbeat \/ LiveCronRunEnds \/ LiveSubagentMoves \/ LiveTick \/ LivePass

SpecLive == InitLive /\ [][NextLive]_vars

----------------------------------------------------------------------------
(* status_builder.py: sanitize_payload_for_static_snapshot *)

(* A payload is [runtime, other]: the value under the key "runtime" and the  *)
(* value under another key.  runtime is [kind, doc]: kind "dict" with the    *)
(* fields doc, or "missing" (no such key), "none" (null), "list".            *)
RuntimeDict(doc) == [kind |-> "dict", doc |-> doc]

\* The variant without the copy of line 2053: sanitized_runtime is the caller's dict.
sanitize_payload_for_static_snapshot_InPlace(payload) ==
    LET runtime_ == payload.runtime
        sanitized_runtime ==
            [ runtime_.doc EXCEPT !.status = "idle", !.isIdle = TRUE, !.activeCount = 0,
                                  !.activeRuns = <<>>, !.source = "fallback-static",
                                  !.snapshotMode = "fallback-sanitized",
                                  !.degradedReason = "Static snapshot cannot carry live runtime rows",
                                  !.revision = IF @ # NoneRev THEN @ ELSE FormatRevision(0) ]
    IN  IF runtime_.kind # "dict" THEN [out |-> payload, payload |-> payload]
        ELSE [ out |-> [payload EXCEPT !.runtime = RuntimeDict(sanitized_runtime)],
               payload |-> [payload EXCEPT !.runtime = RuntimeDict(sanitized_runtime)] ]

\* Lines 2042-2064: [out, payload], the dict returned and the caller's dict after the
\* call (out and sanitized_runtime are copies, lines 2048 and 2053).
sanitize_payload_for_static_snapshot(payload) ==
    LET runtime_ == payload.runtime
        sanitized_runtime ==
            [ runtime_.doc EXCEPT !.status = "idle", !.isIdle = TRUE, !.activeCount = 0,
                                  !.activeRuns = <<>>, !.source = "fallback-static",
                                  !.snapshotMode = "fallback-sanitized",
                                  !.degradedReason = "Static snapshot cannot carry live runtime rows",
                                  !.revision = IF @ # NoneRev THEN @ ELSE FormatRevision(0) ]
    IN  IF runtime_.kind # "dict" THEN [out |-> payload, payload |-> payload]
        ELSE [ out |-> [payload EXCEPT !.runtime = RuntimeDict(sanitized_runtime)],
               payload |-> payload ]

\* The rows of the payloads: what runtime_activity returns for one and two cron runs.
PayloadRows ==
    LET row(session_id, at) ==
            [ RuntimeRow(NoneStr, "job-1", "Job One", session_id, SessionKeyOf("job-1", session_id),
                         "Job One", at, NoneMs, "cron", NoneStr, NoneStr)
                EXCEPT !.runningForMs = FirstClock - at, !.startedAtLocal = StartedAtLocal(at) ]
    IN  { <<>>, <<row("session-a", 1)>>, <<row("session-a", 1), row("session-b", 2)>> }

\* Payloads: build_payload's (runtime is a dict, line 2012) with every source of
\* runtime, and payloads whose "runtime" is missing, null or a list.
Payloads ==
    { [runtime |-> RuntimeDict([ NoRuntime EXCEPT !.status = IF rows = <<>> THEN "idle" ELSE "running",
                                                 !.isIdle = rows = <<>>,
                                                 !.activeCount = Len(rows),
                                                 !.activeRuns = rows,
                                                 !.checkedAtMs = FirstClock,
                                                 !.source = source,
                                                 !.revision = revision,
                                                 !.snapshotMode = mode ]),
       other |-> other] :
        rows \in PayloadRows, source \in {"materialized-ledger", "live-reconciler"},
        revision \in {NoneRev, FormatRevision(7)}, mode \in {"live", NoneStr},
        other \in {"value", "2.0.0"} }
    \cup { [runtime |-> [kind |-> kind, doc |-> NoRuntime], other |-> other] :
             kind \in {"missing", "none", "list"}, other \in {"value", "2.0.0"} }

InitSanitize ==
    /\ input_payload \in Payloads
    /\ sanitized = NoPayload
    /\ LaneOff
    /\ McpOff
    /\ RobustOff
    /\ ReduceOff
    /\ CollectOff
    /\ RaceOff
    /\ SnapshotOff

\* control_room_mcp_server.py, line 163: payload = sanitize_payload_for_static_snapshot(payload).
Sanitize ==
    /\ sanitized = NoPayload
    /\ sanitized' = sanitize_payload_for_static_snapshot(input_payload).out
    /\ input_payload' = sanitize_payload_for_static_snapshot(input_payload).payload
    /\ UNCHANGED <<OutsideView, laneVars, mcpVars, robustVars>>

NextSanitize == Sanitize

SpecSanitize == InitSanitize /\ [][NextSanitize]_vars

----------------------------------------------------------------------------
(* status_builder.py: the workstream lanes *)

\* Lines 177-179.
WORKSTREAM_RUNTIME_NOW_LIMIT == 1
WORKSTREAM_NEXT_LIMIT == 5
WORKSTREAM_DONE_LIMIT == 5

(* Times of the lanes are in minutes: a local time is [day, minute], minute   *)
(* being the minute of the day HH:MM, and a timestamp in milliseconds (startMs, *)
(* endMs, nextRunAtMs, startedAtMs) is given as its minute, AtMinute.  The local *)
(* zone is UTC.                                                               *)
MINUTES_PER_DAY == 1440
AtMinute(day, minute) == day * MINUTES_PER_DAY + minute

(* A label is a string of one of three shapes:                               *)
(*   "range"  "HH:MM-HH:MM — text"   (from, to: the minutes of the two times) *)
(*   "time"   "HH:MM — text"         (to: the minute of the time)             *)
(*   "plain"  text without a leading time.                                    *)
RangeLabel(from, to, text) == [shape |-> "range", from |-> from, to |-> to, text |-> text]
TimeLabel(to, text) == [shape |-> "time", from |-> NoneMs, to |-> to, text |-> text]
PlainLabel(text) == [shape |-> "plain", from |-> NoneMs, to |-> NoneMs, text |-> text]

\* Line 497: f"{block.get('time', 'n/a')} — {block.get('task', '').strip()}".
format_block(block) == RangeLabel(block.from, block.to, block.task)

\* The variant that leaves every item as it is.
format_done_lane_item_Unchanged(item) == item

\* Lines 280-306: the range pattern gives the end time and the text, a single leading
\* time is kept, any other item is unchanged.
format_done_lane_item(item) == IF item.shape = "range" THEN TimeLabel(item.to, item.text) ELSE item

(* An event id is a string of one of three shapes, given as [kind, a, b, c, text]: *)
(*   "job:<job id>:<nextRunAtMs>", "runtime:<session id>",                    *)
(*   "timeline:<date>:<HH:MM-HH:MM>:<task>".                                  *)
JobEventId(job_id, next_run_ms) == [kind |-> "job", a |-> next_run_ms, b |-> 0, c |-> 0, text |-> job_id]
RuntimeEventId(session_id) == [kind |-> "runtime", a |-> 0, b |-> 0, c |-> 0, text |-> session_id]
TimelineEventId(day, from, to, task) == [kind |-> "timeline", a |-> day, b |-> from, c |-> to, text |-> task]

\* The order of Python's str on event ids (times are zero-padded, the timestamps of the
\* jobs have the same number of digits).
LaneIdLess(x, y) ==
    LET key(e) == IF e.kind = "job" THEN <<StrRank(e.text), e.a, 0, 0>>
                  ELSE IF e.kind = "runtime" THEN <<StrRank(e.text), 0, 0, 0>>
                  ELSE <<e.a, e.b, e.c, StrRank(e.text)>>
        m == key(x)
        n == key(y)
    IN  IF x.kind # y.kind THEN StrLess(x.kind, y.kind)
        ELSE \E i \in 1..4 : m[i] < n[i] /\ \A j \in 1..(i - 1) : m[j] = n[j]

\* sort(key=lambda item: (item.get("startMs", 0), item.get("id", ""))) and sorted() of ids.
LaneEventLess(x, y) == x.startMs < y.startMs \/ (x.startMs = y.startMs /\ LaneIdLess(x.id, y.id))

RECURSIVE SortLaneEvents(_)
SortLaneEvents(evs) ==
    IF evs = <<>> THEN <<>>
    ELSE LET rest == SortLaneEvents(SubSeq(evs, 1, Len(evs) - 1))
             last == evs[Len(evs)]
             before == SelectSeq(rest, LAMBDA e : ~LaneEventLess(last, e))
             after == SelectSeq(rest, LAMBDA e : LaneEventLess(last, e))
         IN  before \o <<last>> \o after

RECURSIVE SortedIds(_)
SortedIds(S) ==
    IF S = {} THEN <<>>
    ELSE LET first == CHOOSE x \in S : \A y \in S \ {x} : LaneIdLess(x, y)
         IN  <<first>> \o SortedIds(S \ {first})

\* The variant that keeps a block until after its end.
BlockEnded_Strict(end_ms, at_ms) == end_ms < at_ms

\* Line 656: end_ms <= at_ms.
BlockEnded(end_ms, at_ms) == end_ms <= at_ms

\* Lines 641-672: the blocks of the timeline that have not ended, as events.
timeline_events(timeline, now_local) ==
    LET at_ms == AtMinute(now_local.day, now_local.minute)
        event(block) ==
            [ id |-> TimelineEventId(now_local.day, block.from, block.to, Lower(block.task)),
              kind |-> "timeline",
              startMs |-> AtMinute(now_local.day, block.from),
              endMs |-> AtMinute(now_local.day, block.to),
              label |-> format_block(block) ]
        kept == SelectSeq(timeline, LAMBDA block : ~BlockEnded(AtMinute(now_local.day, block.to), at_ms))
    IN  SortLaneEvents([i \in 1..Len(kept) |-> event(kept[i])])

\* Lines 675-708: the enabled jobs whose next run is not before now, as events.
scheduled_job_events(jobs, now_local) ==
    LET at_ms == AtMinute(now_local.day, now_local.minute)
        event(job) ==
            [ id |-> JobEventId(job.id, job.nextRunAtMs),
              kind |-> "job",
              startMs |-> job.nextRunAtMs,
              endMs |-> NoneMs,
              label |-> TimeLabel(job.nextRunAtMs % MINUTES_PER_DAY, "Scheduled job: " \o job.name) ]
        kept == SelectSeq(jobs, LAMBDA job : /\ job.enabled
                                             /\ ~(job.nextRunAtMs = NoneMs \/ job.nextRunAtMs < at_ms))
    IN  SortLaneEvents([i \in 1..Len(kept) |-> event(kept[i])])

\* Lines 711-736 (status_builder.py): the active rows of runtime, as events.
runtime_events(runtime_) ==
    LET event(row) ==
            [ id |-> RuntimeEventId(OrStr(OrStr(row.sessionId, row.jobId), "runtime")),
              kind |-> "runtime",
              startMs |-> row.startedAtMs,
              endMs |-> NoneMs,
              label |-> PlainLabel(OrStr(OrStr(row.summary, row.jobName), "Running activity")) ]
        kept == SelectSeq(runtime_.activeRuns, LAMBDA row : row.startedAtMs # NoneMs)
    IN  SortLaneEvents([i \in 1..Len(kept) |-> event(kept[i])])

(* The lane-state file: [exists, json, doc], json being FALSE for a text that *)
(* is no JSON object; doc is {day, seenNow, done, labels}, labels a function  *)
(* from event ids to labels.                                                  *)
NoLabels == [id \in {} |-> PlainLabel(NoneStr)]
NoLaneState == [exists |-> FALSE, json |-> FALSE, doc |-> [day |-> 0, seenNow |-> <<>>, done |-> <<>>, labels |-> NoLabels]]

\* The variant that takes the state of any day.
load_workstream_state_AnyDay(state_file, now_local) ==
    LET default == [day |-> now_local.day, seenNow |-> <<>>, done |-> <<>>, labels |-> NoLabels]
    IN  IF ~state_file.exists THEN default
        ELSE IF ~state_file.json THEN default
        ELSE state_file.doc

\* Lines 739-761.
load_workstream_state(state_file, now_local) ==
    LET default == [day |-> now_local.day, seenNow |-> <<>>, done |-> <<>>, labels |-> NoLabels]
    IN  IF ~state_file.exists THEN default
        ELSE IF ~state_file.json THEN default
        ELSE IF state_file.doc.day # now_local.day THEN default
        ELSE state_file.doc

\* Lines 482-495: the first `limit` distinct non-empty items.
RECURSIVE normalize_items(_, _)
normalize_items(items, limit) ==
    IF items = <<>> THEN <<>>
    ELSE LET out == normalize_items(SubSeq(items, 1, Len(items) - 1), limit)
             item == items[Len(items)]
         IN  IF Len(out) >= limit THEN out
             ELSE IF item.text = NoneStr /\ item.shape = "plain" THEN out
             ELSE IF \E i \in 1..Len(out) : out[i] = item THEN out
             ELSE Append(out, item)

Reversed(s) == [i \in 1..Len(s) |-> s[Len(s) + 1 - i]]

RECURSIVE SetLabels(_, _)
SetLabels(labels, evs) ==
    IF evs = <<>> THEN labels
    ELSE SetLabels((Head(evs).id :> Head(evs).label) @@ labels, Tail(evs))

\* A variant that appends every transitioned id, also one the done ids hold already.
AppendMissing_Always(done_ids, ids) == done_ids \o ids

RECURSIVE AppendMissing(_, _)
AppendMissing(done_ids, ids) ==
    IF ids = <<>> THEN done_ids
    ELSE IF \E i \in 1..Len(done_ids) : done_ids[i] = Head(ids) THEN AppendMissing(done_ids, Tail(ids))
    ELSE AppendMissing(Append(done_ids, Head(ids)), Tail(ids))

\* Lines 820, 825-826, 831: of the labels of the done ids, newest first, those that are
\* kept (no label of now or next, at most five) and what the lane shows for them.
DoneLane(done_labels, active_labels, next_unique) ==
    LET done_unique == SelectSeq(normalize_items(done_labels, WORKSTREAM_DONE_LIMIT),
                                 LAMBDA item : /\ ~\E i \in 1..Len(active_labels) : active_labels[i] = item
                                               /\ ~\E i \in 1..Len(next_unique) : next_unique[i] = item)
    IN  [ kept |-> done_unique,
          shown |-> [i \in 1..Len(done_unique) |-> format_done_lane_item(done_unique[i])] ]

\* The variant that takes the first future event also when a run is active.
SelectNow_FutureFirst(active_events, future_events) ==
    IF future_events # <<>>
    THEN [now_events |-> <<future_events[1]>>, next_events |-> Tail(future_events)]
    ELSE [now_events |-> <<>>, next_events |-> future_events]

\* Lines 785-792: now_events and next_events.
SelectNow(active_events, future_events) ==
    IF active_events # <<>>
    THEN [ now_events |-> SubSeq(active_events, 1, Min(WORKSTREAM_RUNTIME_NOW_LIMIT, Len(active_events))),
           next_events |-> future_events ]
    ELSE IF future_events # <<>>
    THEN [now_events |-> <<future_events[1]>>, next_events |-> Tail(future_events)]
    ELSE [now_events |-> <<>>, next_events |-> future_events]

\* Lines 811-837: the lanes returned, the state saved and the events chosen.
LanesResult(chosen, labels, done_ids, seen_now, now_local, output_now, next_unique, done) ==
    [ output |-> [now |-> output_now, next |-> next_unique, done |-> done.shown],
      state |-> [ exists |-> TRUE, json |-> TRUE,
                  doc |-> [ day |-> now_local.day, seenNow |-> SortedIds(seen_now),
                            done |-> SelectSeq(done_ids, LAMBDA event_id : /\ event_id \in DOMAIN labels
                                                                           /\ \E i \in 1..Len(done.kept) : done.kept[i] = labels[event_id]),
                            labels |-> labels ] ],
      now_events |-> chosen.now_events,
      next_events |-> chosen.next_events ]

\* Lines 811-826: the three lanes from the labels of the events and of the done ids.
LanesOfDoneIds(chosen, labels, done_ids, seen_now, now_local, output_now, output_next) ==
    LET labelled == SelectSeq(done_ids, LAMBDA event_id : event_id \in DOMAIN labels)
        done_lane == Reversed([i \in 1..Len(labelled) |-> labels[labelled[i]]])
        next_unique == SelectSeq(output_next, LAMBDA item : ~\E i \in 1..Len(output_now) : output_now[i] = item)
    IN  LanesResult(chosen, labels, done_ids, seen_now, now_local, output_now, next_unique,
                    DoneLane(done_lane, output_now, next_unique))

\* Lines 794-809: the labels, seenNow and the done ids once now and next are chosen.
LanesOfChoice(chosen, now_ids, future_ids, active_events, state, now_local) ==
    LanesOfDoneIds(chosen,
                   SetLabels(state.labels, chosen.now_events \o chosen.next_events \o active_events),
                   AppendMissing(state.done, SelectSeq(state.seenNow, LAMBDA event_id : event_id \notin now_ids /\ event_id \notin future_ids)),
                   {state.seenNow[i] : i \in 1..Len(state.seenNow)} \cup now_ids,
                   now_local,
                   normalize_items([i \in 1..Len(chosen.now_events) |-> chosen.now_events[i].label], WORKSTREAM_RUNTIME_NOW_LIMIT),
                   normalize_items([i \in 1..Len(chosen.next_events) |-> chosen.next_events[i].label], WORKSTREAM_NEXT_LIMIT))

\* Lines 780-795: the state loaded, and now and next chosen from the events.
LanesOfEvents(chosen, future_events, active_events, state, now_local) ==
    LanesOfChoice(chosen,
                  {chosen.now_events[i].id : i \in 1..Len(chosen.now_events)},
                  {future_events[i].id : i \in 1..Len(future_events)},
                  active_events, state, now_local)

\* The lanes from the future events, the runtime events and the state loaded.
LanesOfInputs(future_events, active_events, state, now_local) ==
    LanesOfEvents(SelectNow(active_events, future_events), future_events, active_events, state, now_local)

\* Lines 769-838: [output, state, now_events, next_events]: the lanes returned, the
\* state saved (line 837) and the events chosen at lines 785-792.
build_workstream_lanes(timeline, jobs, runtime_, now_local, state_file) ==
    LanesOfInputs(SortLaneEvents(timeline_events(timeline, now_local) \o scheduled_job_events(jobs, now_local)),
                  runtime_events(runtime_),
                  load_workstream_state(state_file, now_local),
                  now_local)

----------------------------------------------------------------------------
(* The payload builds of two days: build_workstream_lanes on the plan, the jobs, the
   runtime and the lane-state file as they are at each build *)

Block(from, to, task) == [from |-> from, to |-> to, task |-> task]

\* The daily plan in its successive versions: 08:05-08:10 and 08:10-08:20; the first
\* block after an edit of its start time (08:07-08:10); no block.
Plans ==
    << <<Block(485, 490, "Transition block"), Block(490, 500, "deep work")>>,
       <<Block(487, 490, "Transition block"), Block(490, 500, "deep work")>>,
       <<>> >>

\* A plan of six blocks of five minutes, ten minutes apart, from 08:20.
LongPlan == [k \in 1..6 |-> Block(490 + 10 * k, 495 + 10 * k, <<"block 1", "block 2", "block 3", "block 4", "block 5", "block 6">>[k])]

\* jobs.json: job-1 is due at 08:10 of day 1 and, once it ran, at 08:10 of day 2.
JobsDue(day) == << [id |-> "job-1", name |-> "Job One", enabled |-> TRUE, nextRunAtMs |-> AtMinute(day, 490)] >>

\* runtime in its successive versions: no run; a run of job-1 since 07:59 of day 1; the
\* next run of job-1 since 08:07 beside it; the second run alone; no run.
LaneRuntimes ==
    LET row(session_id, at) ==
            RuntimeRow(NoneStr, "job-1", "Job One", session_id, SessionKeyOf("job-1", session_id), "Job One", at, NoneMs, "cron", NoneStr, NoneStr)
        with_runs(rows) == [NoRuntime EXCEPT !.activeRuns = rows, !.activeCount = Len(rows), !.isIdle = rows = <<>>]
    IN  << with_runs(<<>>), with_runs(<<row("session-a", AtMinute(1, 479))>>),
           with_runs(<<row("session-b", AtMinute(1, 487)), row("session-a", AtMinute(1, 479))>>),
           with_runs(<<row("session-b", AtMinute(1, 487))>>), with_runs(<<>>) >>

\* now_local of the successive builds.
LaneSchedule(scenario) ==
    IF scenario = "long"
    THEN [k \in 1..8 |-> [day |-> 1, minute |-> IF k <= 6 THEN 492 + 10 * k ELSE 553 + k]]
    ELSE << [day |-> 1, minute |-> 480], [day |-> 1, minute |-> 486], [day |-> 1, minute |-> 488],
            [day |-> 1, minute |-> 490], [day |-> 1, minute |-> 505], [day |-> 2, minute |-> 480] >>

NowLocal == LaneSchedule(lane_scenario)[lane_clock]

NoLanes == [now |-> <<>>, next |-> <<>>, done |-> <<>>]
NoLaneEvents == [now_events |-> <<>>, next_events |-> <<>>]
NeverLeft == [id \in {} |-> 0]

InitLanes ==
    /\ lane_scenario \in {"short", "long"}
    /\ lane_clock = 1
    /\ plan_timeline = IF lane_scenario = "long" THEN LongPlan ELSE Plans[1]
    /\ plan_jobs = IF lane_scenario = "long" THEN <<>> ELSE JobsDue(1)
    /\ lane_runtime = LaneRuntimes[1]
    /\ lane_version = [plan |-> 1, runtime |-> 1]
    /\ lane_state_file \in {NoLaneState, [NoLaneState EXCEPT !.exists = TRUE]}
    /\ lane_prior = NoLaneState
    /\ workstream = NoLanes
    /\ lane_events = NoLaneEvents
    /\ lane_built = FALSE
    /\ lane_builds = 0
    /\ left_at = NeverLeft
    /\ input_payload = NoPayload
    /\ sanitized = NoPayload
    /\ McpOff
    /\ RobustOff
    /\ ReduceOff
    /\ CollectOff
    /\ RaceOff
    /\ SnapshotOff

LaneFrame == UNCHANGED <<reduceVars, collectVars, raceVars, snapshotVars, input_payload, sanitized, mcpVars, robustVars>>

\* Time passes until the next build.
LaneTick ==
    /\ lane_clock < Len(LaneSchedule(lane_scenario))
    /\ lane_clock' = lane_clock + 1
    /\ lane_built' = FALSE
    /\ UNCHANGED <<lane_scenario, lane_version, plan_timeline, plan_jobs, lane_runtime, lane_state_file, lane_prior, workstream, lane_events, lane_builds, left_at>>
    /\ LaneFrame

\* The daily plan is edited.
PlanEdit ==
    /\ lane_scenario = "short"
    /\ ~lane_built
    /\ lane_version.plan < Len(Plans)
    /\ lane_version' = [lane_version EXCEPT !.plan = @ + 1]
    /\ plan_timeline' = Plans[lane_version'.plan]
    /\ UNCHANGED <<lane_scenario, lane_clock, plan_jobs, lane_runtime, lane_state_file, lane_prior, workstream, lane_events, lane_built, lane_builds, left_at>>
    /\ LaneFrame

\* The scheduler ran job-1 and set its next run.
JobRan ==
    /\ lane_scenario = "short"
    /\ ~lane_built
    /\ plan_jobs = JobsDue(1)
    /\ AtMinute(NowLocal.day, NowLocal.minute) >= plan_jobs[1].nextRunAtMs
    /\ plan_jobs' = JobsDue(2)
    /\ UNCHANGED <<lane_scenario, lane_version, lane_clock, plan_timeline, lane_runtime, lane_state_file, lane_prior, workstream, lane_events, lane_built, lane_builds, left_at>>
    /\ LaneFrame

\* Runs start and end: runtime_activity returns another list of active runs.
RunsChange ==
    /\ lane_scenario = "short"
    /\ ~lane_built
    /\ lane_version.runtime < Len(LaneRuntimes)
    /\ lane_version' = [lane_version EXCEPT !.runtime = @ + 1]
    /\ lane_runtime' = LaneRuntimes[lane_version'.runtime]
    /\ \A i \in 1..Len(lane_runtime'.activeRuns) :
          lane_runtime'.activeRuns[i].startedAtMs <= AtMinute(NowLocal.day, NowLocal.minute)
    /\ UNCHANGED <<lane_scenario, lane_clock, plan_timeline, plan_jobs, lane_state_file, lane_prior, workstream, lane_events, lane_built, lane_builds, left_at>>
    /\ LaneFrame

EventIds(evs) == {evs[i].id : i \in 1..Len(evs)}

\* The build at which each event id left the now lane and the future events: an id
\* the now lane has held (seenNow) is counted when it is first in neither, and again
\* when it returned to either and left again.  The count starts anew with the day.
LeftAt(result) ==
    LET doc == lane_state_file.doc
        same_day == lane_state_file.exists /\ lane_state_file.json /\ doc.day = NowLocal.day
        present == EventIds(result.now_events) \cup EventIds(result.next_events)
        before == EventIds(lane_events.now_events) \cup EventIds(lane_events.next_events)
        leaving == IF same_day
                   THEN {id \in {doc.seenNow[i] : i \in 1..Len(doc.seenNow)} :
                           id \notin present /\ (id \notin DOMAIN left_at \/ id \in before)}
                   ELSE {}
        kept == IF same_day THEN left_at ELSE NeverLeft
    IN  [id \in leaving |-> lane_builds + 1] @@ kept

\* Lines 2013-2019: build_payload calls build_workstream_lanes, which saves the state.
LaneBuild ==
    /\ ~lane_built
    /\ LET result == build_workstream_lanes(plan_timeline, plan_jobs, lane_runtime, NowLocal, lane_state_file)
       IN  /\ workstream' = result.output
           /\ lane_state_file' = result.state
           /\ lane_prior' = lane_state_file
           /\ lane_events' = [now_events |-> result.now_events, next_events |-> result.next_events]
           /\ left_at' = LeftAt(result)
    /\ lane_built' = TRUE
    /\ lane_builds' = lane_builds + 1
    /\ UNCHANGED <<lane_scenario, lane_version, lane_clock, plan_timeline, plan_jobs, lane_runtime>>
    /\ LaneFrame

NextLanes == LaneTick \/ PlanEdit \/ JobRan \/ RunsChange \/ LaneBuild

SpecLanes == InitLanes /\ [][NextLanes]_vars

----------------------------------------------------------------------------
(* The MCP server: run_server reads framed JSON-RPC messages from stdin and   *)
(* writes the responses to stdout                                             *)

MaxMessages == 3

NoId == NoneMs

\* The arguments of a tools/call: the tool's name (NoneStr: absent, empty or no
\* string), the "version" argument of the release tool (NoneStr: absent or blank), and
\* what the tool meets in its environment: the exception raised under the handler
\* (NoneStr: none).
Params(name, version, raises) == [name |-> name, version |-> version, raises |-> raises]
NoParams == Params(NoneStr, NoneStr, NoneStr)

\* A frame on stdin: a framed JSON object with "id" (NoId: absent or null), "method"
\* (NoneStr: no string) and "params", or bytes that read_message rejects.
Message(id, method) == [framing |-> "ok", id |-> id, method |-> method, params |-> NoParams]
ToolCall(id, params) == [framing |-> "ok", id |-> id, method |-> "tools/call", params |-> params]
Broken(framing) == [framing |-> framing, id |-> NoId, method |-> NoneStr, params |-> NoParams]
BadFrame == Broken("malformed header line")

\* jsonrpc_stdio.py lines 17-66: the ways read_message rejects a frame, in the order of
\* its checks.
ProtocolErrors == {"unexpected EOF while reading headers", "malformed header line", "missing Content-Length header", "invalid Content-Length header", "negative Content-Length header", "unexpected EOF while reading payload", "invalid JSON payload", "top-level JSON-RPC payload must be an object"}

\* The variant that takes every frame for a message.
read_message_Lenient(stream) ==
    IF stream = <<>> THEN [outcome |-> "None", message |-> BadFrame, error |-> NoneStr]
    ELSE [outcome |-> "message", message |-> Head(stream), error |-> NoneStr]

\* jsonrpc_stdio.py lines 17-66 (read_message): None at the end of the stream,
\* ProtocolError on a frame it rejects, the decoded object otherwise.
read_message(stream) ==
    IF stream = <<>> THEN [outcome |-> "None", message |-> BadFrame, error |-> NoneStr]
    ELSE IF Head(stream).framing \in ProtocolErrors THEN [outcome |-> "ProtocolError", message |-> BadFrame, error |-> Head(stream).framing]
    ELSE [outcome |-> "message", message |-> Head(stream), error |-> NoneStr]

McpMethods == {"initialize", "ping", "tools/list", "tools/call", "notifications/initialized", "shutdown", "resources/list", NoneStr}

\* The frames a client may send as its n-th: a request numbered n, a notification, or
\* an ill-framed message.
FramesAt(n) == {BadFrame} \cup {Message(id, method) : id \in {NoId, n}, method \in McpMethods}

NoResponse == [id |-> NoId, kind |-> "none", code |-> 0]

\* jsonrpc_stdio.py lines 78-90.
jsonrpc_success(message_id, result) == [id |-> message_id, kind |-> "result", result |-> result, code |-> 0]
jsonrpc_error(message_id, code) == [id |-> message_id, kind |-> "error", code |-> code]

\* The results of the methods but tools/call, by their shape.
Result(shape) == [shape |-> shape]

\* Lines 100-105 (_tool_result).
tool_result(text, structured, is_error) == [shape |-> "tool_result", text |-> text, structuredContent |-> structured, isError |-> is_error]

\* Lines 238-243.
TOOL_HANDLERS == {"control-room.issue.snapshot", "control-room.status.build", "control-room.release.extract-notes", "control-room.runtime.materialize"}

(* A line of the changelog, given by what VERSION_HEADING_RE and strip() see in it:  *)
(*   level    the number of # the stripped line starts with before white space   *)
(*   version  the X.Y.Z that follows "## " or "## v", NoneStr when none does      *)
(*   text     the rest of the line ("" on a blank line)                           *)
ChangelogLine(level, version, text) == [level |-> level, version |-> version, text |-> text]

\* extract_release_notes.py line 11: ^##\s+v?(\d+\.\d+\.\d+)\b on the stripped line.
VERSION_HEADING_RE(line) == line.level = 2 /\ line.version # NoneStr

IsBlankLine(line) == line.level = 0 /\ line.text = NoneStr

\* Line 36: "\n".join(out).strip(), which takes the blank lines at the end away.
RECURSIVE StripLines(_)
StripLines(out) == IF out # <<>> /\ IsBlankLine(out[Len(out)]) THEN StripLines(SubSeq(out, 1, Len(out) - 1)) ELSE out

\* Lines 19-31: the loop over the lines from line i on, with `capture` and `out`.
RECURSIVE CaptureFrom(_, _, _, _, _)
CaptureFrom(lines, i, version, capture, out) ==
    IF i > Len(lines) THEN out
    ELSE IF VERSION_HEADING_RE(lines[i]) /\ capture THEN out
    ELSE IF VERSION_HEADING_RE(lines[i]) /\ lines[i].version = version THEN CaptureFrom(lines, i + 1, version, TRUE, Append(out, lines[i]))
    ELSE IF capture THEN CaptureFrom(lines, i + 1, version, capture, Append(out, lines[i]))
    ELSE CaptureFrom(lines, i + 1, version, capture, out)

\* extract_release_notes.py lines 14-36: the lines captured, or the exception when no
\* section was captured.
extract_release_notes(changelog_text, version) ==
    LET out == CaptureFrom(changelog_text, 1, version, FALSE, <<>>)
    IN  IF out = <<>> THEN [raised |-> "ValueError", notes |-> <<>>]
        ELSE [raised |-> NoneStr, notes |-> StripLines(out)]

\* The versions that have a section in the changelog.
ChangelogVersions == {"1.0.0", "0.9.0"}

\* The changelog of the working directory: the sections of 1.0.0 and of 0.9.0.
ChangelogFile == <<ChangelogLine(1, NoneStr, "Changelog"), ChangelogLine(0, NoneStr, NoneStr), ChangelogLine(2, "1.0.0", "2026-02-17"), ChangelogLine(0, NoneStr, "- One"), ChangelogLine(2, "0.9.0", "2026-02-10"), ChangelogLine(0, NoneStr, "- Old")>>

\* Lines 182-206 (tool_release_extract) and the other handlers (lines 117-235): the
\* exception a handler ends with, NoneStr when it returns its result.
handler(params) ==
    IF params.raises # NoneStr THEN params.raises
    ELSE IF params.name # "control-room.release.extract-notes" THEN NoneStr
    ELSE IF params.version = NoneStr THEN "ValueError"
    ELSE extract_release_notes(ChangelogFile, params.version).raised

\* The variant that takes every call for a success.
handle_tools_call_TrustsCaller(params) ==
    tool_result("ok", [ok |-> TRUE, tool |-> params.name, error |-> NoneStr], FALSE)

\* Lines 246-286 (_handle_tools_call).
handle_tools_call(params) ==
    IF params.name = NoneStr
    THEN tool_result("tool call missing name", [ok |-> FALSE, tool |-> NoneStr, error |-> "tool call missing name"], TRUE)
    ELSE IF params.name \notin TOOL_HANDLERS
    THEN tool_result("unknown tool", [ok |-> FALSE, tool |-> NoneStr, error |-> "unknown tool"], TRUE)
    ELSE IF handler(params) \in {"CalledProcessError", "FileNotFoundError", "ValueError"}
    THEN tool_result("tool failed", [ok |-> FALSE, tool |-> params.name, error |-> handler(params)], TRUE)
    ELSE IF handler(params) # NoneStr
    THEN tool_result("tool failed unexpectedly", [ok |-> FALSE, tool |-> params.name, error |-> handler(params)], TRUE)
    ELSE tool_result("ok", [ok |-> TRUE, tool |-> params.name, error |-> NoneStr], FALSE)

\* The variant that answers every message.
handle_request_AlwaysAnswers(message) ==
    IF message.method = "shutdown"
    THEN [should_continue |-> FALSE, response |-> jsonrpc_success(message.id, Result("empty"))]
    ELSE [should_continue |-> TRUE, response |-> jsonrpc_success(message.id, Result("empty"))]

\* The results of the methods that answer a request with a result.
ResultOf(message) ==
    IF message.method = "initialize" THEN Result("initialize")
    ELSE IF message.method = "tools/list" THEN Result("tools")
    ELSE IF message.method = "tools/call" THEN handle_tools_call(message.params)
    ELSE Result("empty")

\* The variant that goes on after a shutdown.
handle_request_ShutdownContinues(message) ==
    IF message.id = NoId \/ message.method = "notifications/initialized"
    THEN [should_continue |-> TRUE, response |-> NoResponse]
    ELSE IF message.method = NoneStr
    THEN [should_continue |-> TRUE, response |-> jsonrpc_error(message.id, -32600)]
    ELSE IF message.method \in {"initialize", "ping", "tools/list", "tools/call", "shutdown"}
    THEN [should_continue |-> TRUE, response |-> jsonrpc_success(message.id, ResultOf(message))]
    ELSE [should_continue |-> TRUE, response |-> jsonrpc_error(message.id, -32601)]

\* The variant that takes every method it does not know for an invalid request.
handle_request_InvalidRequest(message) ==
    IF message.id = NoId \/ message.method = "notifications/initialized"
    THEN [should_continue |-> message.method # "shutdown", response |-> NoResponse]
    ELSE IF message.method \in {"initialize", "ping", "tools/list", "tools/call", "shutdown"}
    THEN [should_continue |-> message.method # "shutdown", response |-> jsonrpc_success(message.id, ResultOf(message))]
    ELSE [should_continue |-> TRUE, response |-> jsonrpc_error(message.id, -32600)]

\* Lines 289-337 (_handle_request): [should_continue, response].
handle_request(message) ==
    LET message_id == message.id
        method == message.method
        unless_notification(should_continue, response) ==
            IF message_id = NoId THEN [should_continue |-> should_continue, response |-> NoResponse]
            ELSE [should_continue |-> should_continue, response |-> response]
    IN  IF method = NoneStr THEN unless_notification(TRUE, jsonrpc_error(message_id, -32600))
        ELSE IF method = "initialize" THEN unless_notification(TRUE, jsonrpc_success(message_id, Result("initialize")))
        ELSE IF method = "ping" THEN unless_notification(TRUE, jsonrpc_success(message_id, Result("empty")))
        ELSE IF method = "tools/list" THEN unless_notification(TRUE, jsonrpc_success(message_id, Result("tools")))
        ELSE IF method = "tools/call" THEN unless_notification(TRUE, jsonrpc_success(message_id, handle_tools_call(message.params)))
        ELSE IF method = "notifications/initialized" THEN [should_continue |-> TRUE, response |-> NoResponse]
        ELSE IF method = "shutdown" THEN unless_notification(FALSE, jsonrpc_success(message_id, Result("empty")))
        ELSE unless_notification(TRUE, jsonrpc_error(message_id, -32601))

NoExit == NoneMs

RECURSIVE Streams(_)
Streams(n) ==
    IF n = 0 THEN {<<>>}
    ELSE Streams(n - 1) \cup {Append(s, f) : s \in {t \in Streams(n - 1) : Len(t) = n - 1}, f \in FramesAt(n)}

InitMcp ==
    /\ mcp_stdin \in Streams(MaxMessages)
    /\ mcp_stdout = <<>>
    /\ mcp_state = [pc |-> "read", message |-> BadFrame, exit_code |-> NoExit, stderr |-> NoneStr]
    /\ mcp_log = <<>>
    /\ input_payload = NoPayload
    /\ sanitized = NoPayload
    /\ LaneOff
    /\ RobustOff
    /\ ReduceOff
    /\ CollectOff
    /\ RaceOff
    /\ SnapshotOff

McpFrame == UNCHANGED <<reduceVars, collectVars, raceVars, snapshotVars, input_payload, sanitized, laneVars, robustVars>>

\* Lines 344-353: read_message returns None at the end of stdin (exit 0), raises
\* ProtocolError on an ill-framed message (reported on stderr, exit 1), or returns the
\* message.
McpRead ==
    /\ mcp_state.pc = "read"
    /\ LET read == read_message(mcp_stdin)
       IN  IF read.outcome = "None"
           THEN /\ mcp_state' = [mcp_state EXCEPT !.pc = "exit", !.exit_code = 0]
                /\ UNCHANGED <<mcp_stdin, mcp_log>>
           ELSE IF read.outcome = "ProtocolError"
           THEN /\ mcp_state' = [mcp_state EXCEPT !.pc = "exit", !.exit_code = 1, !.stderr = read.error]
                /\ mcp_stdin' = Tail(mcp_stdin)
                /\ UNCHANGED mcp_log
           ELSE /\ mcp_state' = [mcp_state EXCEPT !.pc = "respond", !.message = read.message]
                /\ mcp_stdin' = Tail(mcp_stdin)
                /\ mcp_log' = Append(mcp_log, read.message)
    /\ UNCHANGED mcp_stdout
    /\ McpFrame

\* Lines 355-360: the message is handled, the response, if any, is written and flushed
\* (write_message), and the loop goes on or ends.
McpRespond ==
    /\ mcp_state.pc = "respond"
    /\ LET handled == handle_request(mcp_state.message)
       IN  /\ mcp_stdout' = IF handled.response # NoResponse THEN Append(mcp_stdout, handled.response) ELSE mcp_stdout
           /\ mcp_state' = IF handled.should_continue
                           THEN [mcp_state EXCEPT !.pc = "read"]
                           ELSE [mcp_state EXCEPT !.pc = "exit", !.exit_code = 0]
    /\ UNCHANGED <<mcp_stdin, mcp_log>>
    /\ McpFrame

NextMcp == McpRead \/ McpRespond

SpecMcp == InitMcp /\ [][NextMcp]_vars

\* The server under clients whose frames go wrong in each of the ways read_message
\* tells apart.
FramedAt(n) == {Broken(framing) : framing \in ProtocolErrors} \cup {Message(n, "ping"), Message(NoId, "ping"), Message(n, "initialize")}

RECURSIVE FramedStreams(_)
FramedStreams(n) ==
    IF n = 0 THEN {<<>>}
    ELSE FramedStreams(n - 1) \cup {Append(s, f) : s \in {t \in FramedStreams(n - 1) : Len(t) = n - 1}, f \in FramedAt(n)}

InitFraming ==
    /\ mcp_stdin \in FramedStreams(MaxMessages)
    /\ mcp_stdout = <<>>
    /\ mcp_state = [pc |-> "read", message |-> BadFrame, exit_code |-> NoExit, stderr |-> NoneStr]
    /\ mcp_log = <<>>
    /\ input_payload = NoPayload
    /\ sanitized = NoPayload
    /\ LaneOff
    /\ RobustOff
    /\ ReduceOff
    /\ CollectOff
    /\ RaceOff
    /\ SnapshotOff

SpecFraming == InitFraming /\ [][NextMcp]_vars

\* The server under clients that call tools: without a name, one that does not exist,
\* the release tool with and without a version the changelog has, and tools that meet
\* a failing command, a missing file or another error.
ToolParams == {NoParams, Params("control-room.unknown", NoneStr, NoneStr)} \cup {Params("control-room.release.extract-notes", version, NoneStr) : version \in {NoneStr, "1.0.0", "9.9.9"}} \cup {Params("control-room.issue.snapshot", NoneStr, raises) : raises \in {NoneStr, "CalledProcessError", "FileNotFoundError"}} \cup {Params("control-room.status.build", NoneStr, raises) : raises \in {NoneStr, "OSError"}}

ToolFramesAt(n) == {ToolCall(n, params) : params \in ToolParams} \cup {ToolCall(NoId, NoParams), Message(n, "ping"), Message(n, "tools/list")}

RECURSIVE ToolStreams(_)
ToolStreams(n) ==
    IF n = 0 THEN {<<>>}
    ELSE ToolStreams(n - 1) \cup {Append(s, f) : s \in {t \in ToolStreams(n - 1) : Len(t) = n - 1}, f \in ToolFramesAt(n)}

InitTools ==
    /\ mcp_stdin \in ToolStreams(MaxMessages)
    /\ mcp_stdout = <<>>
    /\ mcp_state = [pc |-> "read", message |-> BadFrame, exit_code |-> NoExit, stderr |-> NoneStr]
    /\ mcp_log = <<>>
    /\ input_payload = NoPayload
    /\ sanitized = NoPayload
    /\ LaneOff
    /\ RobustOff
    /\ ReduceOff
    /\ CollectOff
    /\ RaceOff
    /\ SnapshotOff

SpecTools == InitTools /\ [][NextMcp]_vars

----------------------------------------------------------------------------
(* The collector and build_payload on producer files that are missing or damaged *)

\* A jobs document as load_jobs and next_jobs meet it: ok is FALSE for a missing file
\* and for one that is no JSON; doc_type is the type of the top-level value, jobs_type
\* the type of its "jobs" ("missing": no such key); jobs holds the rows that carry an
\* id, by id, and rows all the rows in their order.
JobsDocument(ok, doc_type, jobs_type, rows) == [ok |-> ok /\ doc_type = "object", readable |-> ok, doc_type |-> doc_type, jobs_type |-> jobs_type, jobs |-> [job_id \in {rows[i].id : i \in {j \in 1..Len(rows) : rows[j].is_dict /\ rows[j].id # NoneStr}} |-> (CHOOSE row \in {rows[i] : i \in 1..Len(rows)} : row.is_dict /\ row.id = job_id)], rows |-> rows]

\* A row of "jobs": a JSON object or not; state_type is the type of its "state".
JobRow(id, name, enabled, state_type, nextRunAtMs) == [is_dict |-> TRUE, id |-> id, name |-> name, model |-> NoneStr, thinking |-> NoneStr, enabled |-> enabled, state_type |-> state_type, nextRunAtMs |-> nextRunAtMs, lastStatus |-> "ok"]
NotARow == [JobRow(NoneStr, NoneStr, FALSE, "missing", NoTs) EXCEPT !.is_dict = FALSE]

\* Line 92 (for row in doc.get("jobs", [])): the exception load_jobs ends with on a
\* document whose "jobs" cannot be iterated, NoneStr when it returns.
load_jobs_raises(jobs_file) ==
    IF jobs_file.ok /\ jobs_file.jobs_type \in {"null", "number"} THEN "TypeError" ELSE NoneStr

\* Lines 324-336: how collect_events ends: with an exception, or with its events.
collect_events_outcome(paths) ==
    IF load_jobs_raises(paths.jobs_file) # NoneStr
    THEN [done |-> TRUE, raised |-> load_jobs_raises(paths.jobs_file), events |-> <<>>]
    ELSE [done |-> TRUE, raised |-> NoneStr, events |-> collect_events(paths)]

FinishedRow(session_id, t) == [json |-> TRUE, action |-> "finished", sessionId |-> session_id, finishedAtMs |-> Ms(t), ts |-> NoTs, status |-> "ok", result |-> NoneStr]

\* The producer files in good shape, missing, and damaged in a document, a line or a
\* record.
DamagedJobs == {JobsDocument(FALSE, "object", "missing", <<>>), JobsDocument(TRUE, "array", "missing", <<>>), JobsDocument(TRUE, "object", "missing", <<>>), JobsDocument(TRUE, "object", "null", <<>>), JobsDocument(TRUE, "object", "list", <<JobRow("job-1", "Job One", TRUE, "object", Ms(1))>>), JobsDocument(TRUE, "object", "list", <<NotARow, JobRow("job-1", "Job One", TRUE, "object", Ms(1))>>)}

DamagedSessions == {[ok |-> FALSE, doc |-> EmptyDict], [ok |-> TRUE, doc |-> (SessionKeyOf("job-1", "session-a") :> [updatedAt |-> Ms(1), model |-> NoneStr, thinking |-> NoneStr])], [ok |-> TRUE, doc |-> (SessionKeyOf("job-1", "session-a") :> [updatedAt |-> Ms(1), model |-> NoneStr, thinking |-> NoneStr]) @@ (SessionKeyOf("job-2", "session-b") :> [updatedAt |-> NoTs, model |-> NoneStr, thinking |-> NoneStr])]}

DamagedRuns == {EmptyDict, "job-1" :> <<FinishedRow("session-a", 2)>>, "job-1" :> <<[FinishedRow("session-b", 2) EXCEPT !.json = FALSE], FinishedRow("session-a", 2)>>, "job-1" :> <<FinishedRow(NoneStr, 2), FinishedRow("session-a", 2)>>}

DamagedSubagents == {[ok |-> FALSE, runs |-> EmptyDict], [ok |-> TRUE, runs |-> ("run-1" :> [NoEntry EXCEPT !.startedAt = Ms(1)])], [ok |-> TRUE, runs |-> ("run-1" :> NoEntry)]}

NotCollected == [done |-> FALSE, raised |-> NoneStr, events |-> <<>>]
NotBuilt == [done |-> FALSE, raised |-> NoneStr, payload |-> EmptyDict]

InitDamaged ==
    /\ producer_files \in [jobs_file : DamagedJobs, sessions_file : DamagedSessions, runs_dir : DamagedRuns, subagent_file : DamagedSubagents]
    /\ collected = NotCollected
    /\ dashboard_files = NoneStr
    /\ dashboard = NotBuilt
    /\ event_label = NoneStr
    /\ built_event = NoneStr
    /\ call_args = NoneStr
    /\ call_result = NoneStr
    /\ materializers = NoneStr
    /\ input_payload = NoPayload
    /\ sanitized = NoPayload
    /\ LaneOff
    /\ McpOff
    /\ ReduceOff
    /\ CollectOff
    /\ RaceOff
    /\ SnapshotOff

RobustFrame == UNCHANGED <<reduceVars, collectVars, raceVars, snapshotVars, input_payload, sanitized, laneVars, mcpVars>>

\* Lines 363-380 (main): collect_events on the producer files.
CollectDamaged ==
    /\ ~collected.done
    /\ collected' = collect_events_outcome(producer_files)
    /\ UNCHANGED <<producer_files, dashboard_files, dashboard, event_label, built_event, call_args, call_result, materializers>>
    /\ RobustFrame

NextDamaged == CollectDamaged

SpecDamaged == InitDamaged /\ [][NextDamaged]_vars

\* status_builder.py line 896 (job.get("state", {}).get("nextRunAtMs") or 2**63): the
\* sort key of a job that has no next run, above every time of the model.
NO_NEXT_RUN_KEY == 2147483647

\* status_builder.py line 884 (limit: int = 8).
NEXT_JOBS_LIMIT == 8

\* A "nextRunAtMs" that is a string.
TextTs == [unit |-> "text", v |-> 0]

\* status_builder.py lines 184-186 (read_text): the exception on a file that is not
\* UTF-8, NoneStr when it returns the text ("" for a missing file).
read_text_raises(file) == IF file = "not utf-8" THEN "UnicodeDecodeError" ELSE NoneStr

EnabledJobs(jobs_file) == SelectSeq(jobs_file.rows, LAMBDA job : job.enabled)

\* status_builder.py lines 884-896: the exception next_jobs ends with, NoneStr when it
\* returns: doc.get on a document that is no object, the iteration of a "jobs" that is
\* no list, job.get on a row that is no object, .get on a "state" that is no object,
\* and the comparison of a string with a number in the sort.
next_jobs_raises(jobs_file) ==
    LET jobs == EnabledJobs(jobs_file)
        keys == {jobs[i].nextRunAtMs.unit : i \in 1..Len(jobs)}
    IN  IF ~jobs_file.readable THEN NoneStr
        ELSE IF jobs_file.doc_type # "object" THEN "AttributeError"
        ELSE IF jobs_file.jobs_type \in {"null", "number"} THEN "TypeError"
        ELSE IF \E i \in 1..Len(jobs_file.rows) : ~jobs_file.rows[i].is_dict THEN "AttributeError"
        ELSE IF \E i \in 1..Len(jobs) : jobs[i].state_type \notin {"object", "missing"} THEN "AttributeError"
        ELSE IF "text" \in keys /\ keys # {"text"} THEN "TypeError"
        ELSE NoneStr

NextRunKey(job) == IF job.nextRunAtMs.unit = "ms" /\ job.nextRunAtMs.v # 0 THEN job.nextRunAtMs.v ELSE NO_NEXT_RUN_KEY

\* list.sort by the key, which keeps the order of jobs with equal keys.
RECURSIVE SortJobs(_)
SortJobs(jobs) ==
    IF jobs = <<>> THEN <<>>
    ELSE LET rest == SortJobs(SubSeq(jobs, 1, Len(jobs) - 1))
             job == jobs[Len(jobs)]
             before == SelectSeq(rest, LAMBDA other : NextRunKey(other) <= NextRunKey(job))
             after == SelectSeq(rest, LAMBDA other : NextRunKey(other) > NextRunKey(job))
         IN  before \o <<job>> \o after

\* status_builder.py lines 900-907: "%H:%M" of the time, with UTC for the local zone.
NextRunLabel(job) ==
    IF job.nextRunAtMs.unit = "ms"
    THEN [label |-> "HH:MM", hour |-> (job.nextRunAtMs.v \div 3600000) % 24, minute |-> (job.nextRunAtMs.v \div 60000) % 60]
    ELSE [label |-> "n/a", hour |-> NoneMs, minute |-> NoneMs]

\* status_builder.py lines 884-918 (next_jobs), where it returns.
next_jobs(jobs_file) ==
    IF ~jobs_file.readable THEN <<>>
    ELSE LET jobs == SortJobs(EnabledJobs(jobs_file))
             first == SubSeq(jobs, 1, Min(Len(jobs), NEXT_JOBS_LIMIT))
         IN  [i \in 1..Len(first) |-> [name |-> first[i].name, nextRun |-> NextRunLabel(first[i]), lastStatus |-> IF first[i].state_type = "object" THEN first[i].lastStatus ELSE NoneStr]]

\* status_builder.py lines 2022-2039: the keys of the payload.
PayloadKeys == {"generatedAt", "generatedAtLocal", "controlRoomVersion", "currentFocus", "activeWork", "reliability", "timeline", "nextJobs", "findings", "workstream", "charts", "activity", "skills", "runtime"}

\* status_builder.py lines 1996-2039 (build_payload): how the call ends.  The three
\* markdown files are read first, next_jobs is the first reader of the jobs file; the
\* fields that the files of the model do not feed stand for themselves.
build_payload_outcome(inputs) ==
    LET texts == <<inputs.plan, inputs.status, inputs.memory>>
    IN  IF \E i \in 1..3 : read_text_raises(texts[i]) # NoneStr
        THEN [done |-> TRUE, raised |-> "UnicodeDecodeError", payload |-> EmptyDict]
        ELSE IF next_jobs_raises(inputs.jobs_file) # NoneStr
        THEN [done |-> TRUE, raised |-> next_jobs_raises(inputs.jobs_file), payload |-> EmptyDict]
        ELSE [done |-> TRUE, raised |-> NoneStr, payload |-> [key \in PayloadKeys |-> IF key = "nextJobs" THEN next_jobs(inputs.jobs_file) ELSE IF key = "timeline" THEN <<inputs.plan>> ELSE <<>>]]

\* The jobs file of the dashboard in good shape, missing, and damaged in the document
\* or in a record.
DashboardJobs == {JobsDocument(FALSE, "object", "missing", <<>>), JobsDocument(TRUE, "array", "missing", <<>>), JobsDocument(TRUE, "object", "missing", <<>>), JobsDocument(TRUE, "object", "null", <<>>)} \cup {JobsDocument(TRUE, "object", "list", <<first, JobRow("job-2", "Job Two", TRUE, "object", Ms(60000))>>) : first \in {NotARow, JobRow("job-1", "Job One", TRUE, "object", Ms(120000)), JobRow("job-1", "Job One", FALSE, "null", NoTs), JobRow("job-1", "Job One", TRUE, "null", NoTs), JobRow("job-1", "Job One", TRUE, "missing", NoTs), JobRow("job-1", "Job One", TRUE, "object", TextTs)}}

MarkdownFiles == {"missing", "text", "not utf-8"}

InitDashboard ==
    /\ dashboard_files \in [jobs_file : DashboardJobs, plan : MarkdownFiles, status : MarkdownFiles, memory : {"missing", "text"}]
    /\ dashboard = NotBuilt
    /\ producer_files = NoneStr
    /\ collected = NotCollected
    /\ event_label = NoneStr
    /\ built_event = NoneStr
    /\ call_args = NoneStr
    /\ call_result = NoneStr
    /\ materializers = NoneStr
    /\ input_payload = NoPayload
    /\ sanitized = NoPayload
    /\ LaneOff
    /\ McpOff
    /\ ReduceOff
    /\ CollectOff
    /\ RaceOff
    /\ SnapshotOff

\* control_room_mcp_server.py, line 161: payload = build_payload(workspace, jobs_file).
BuildDamaged ==
    /\ ~dashboard.done
    /\ dashboard' = build_payload_outcome(dashboard_files)
    /\ UNCHANGED <<producer_files, collected, dashboard_files, event_label, built_event, call_args, call_result, materializers>>
    /\ RobustFrame

NextDashboard == BuildDamaged

SpecDashboard == InitDashboard /\ [][NextDashboard]_vars

----------------------------------------------------------------------------
(* reduce_events and reconcile on events whose payloads disagree with their times *)

SkewOffset(run_key) == IF run_key = CronKey THEN "sessions:agent:main:cron:job-1:run:session-a" ELSE "subagent:run-1:heartbeat"
SkewSource(run_key) == IF run_key = CronKey THEN "sessions-store" ELSE "subagent-registry"
SkewPayload(run_key, started_at_ms, last_seen_at_ms) == [EmptyPayload EXCEPT !.jobId = run_key, !.startedAtMs = started_at_ms, !.lastSeenAtMs = last_seen_at_ms]

\* Heartbeats of two runs whose payloads carry a start before the last sighting, a
\* start after it, or neither, and the end of the cron run.
SkewUniverse == {build_event(run_key, "heartbeat", at, SkewSource(run_key), SkewOffset(run_key), SkewPayload(run_key, times[1], times[2])) : run_key \in {CronKey, SubagentKey}, at \in EventTimes, times \in {<<1, 2>>, <<3, 2>>, <<NoneMs, NoneMs>>}} \cup {build_event(CronKey, "finished", 2, "cron-runs", "job-1.jsonl:1", EmptyPayload)}

SkewLists == UNION { [1..n -> SkewUniverse] : n \in 0..MaxEvents }

InitSkew ==
    /\ events \in SkewLists
    /\ now_ms \in NowValues
    /\ stale_ms \in StaleValues
    /\ pc = "start"
    /\ sorted = <<>>
    /\ idx = 1
    /\ active = EmptyDict
    /\ terminals = EmptyDict
    /\ dropped_stale = 0
    /\ active_rows = <<>>
    /\ CollectOff
    /\ RaceOff
    /\ SnapshotOff
    /\ ViewOff

\* The candidate rows that the running events describe, in the order of the events.
CandidateRows(evs) ==
    LET running == SelectSeq(evs, LAMBDA event : event.eventType \in RUNNING_EVENT_TYPES)
    IN  [i \in 1..Len(running) |-> RuntimeRow(running[i].runKey, running[i].payload.jobId, NoneStr, NoneStr, NoneStr, NoneStr, IF running[i].payload.startedAtMs # NoneMs THEN running[i].payload.startedAtMs ELSE running[i].eventAtMs, running[i].payload.lastSeenAtMs, NoneStr, NoneStr, NoneStr)]

\* runtime_reconciler.py, lines 112-157: reconcile on the candidates and the terminal
\* events of the same list, for the same time.
ReconcileEvents ==
    /\ pc = "done"
    /\ reads = 0
    /\ LET reconciled == reconcile(now_ms, CandidateRows(events), events, stale_ms)
       IN  runtime' = [NoRuntime EXCEPT !.activeRuns = reconciled.activeRuns, !.activeCount = reconciled.activeCount, !.source = "live-reconciler", !.droppedTerminalCount = reconciled.droppedTerminalCount, !.droppedStaleCount = reconciled.droppedStaleCount]
    /\ reads' = 1
    /\ UNCHANGED <<runtime_state_file, clock, ticks, mat_pc, mat_state, prev_file, last_revision, calls>>
    /\ UNCHANGED <<reduceVars, collectVars, raceVars, viewVars>>

NextSkew == ReduceStart \/ FoldStep \/ ReduceFinish \/ ReconcileEvents

SpecSkew == InitSkew /\ [][NextSkew]_vars

----------------------------------------------------------------------------
(* Claims about reduce_events *)

RowKeys(rows) == {rows[i].runKey : i \in DOMAIN rows}

ValidEvent(e) == e.runKey # NoneStr /\ e.eventType # NoneStr /\ e.eventAtMs # NoneMs

\* All orders of the list evs.
PermutationsOf(evs) ==
    { [i \in 1..Len(evs) |-> evs[f[i]]] : f \in Permutations(1..Len(evs)) }

\* C1: once a run key is in terminals, every later step of reduce_events leaves its
\* terminal record as it is, keeps the key out of active, and returns no row for it.
C1_AbsorbingTerminal ==
    [][\A k \in DOMAIN terminals :
          /\ k \in DOMAIN terminals'
          /\ terminals'[k] = terminals[k]
          /\ k \notin DOMAIN active'
          /\ k \notin RowKeys(active_rows')]_vars

\* A finished reduction whose sorted input holds a terminal event of a key and, behind
\* it, a started or heartbeat event of the same key.
C1_Witness ==
    /\ pc = "done"
    /\ \E i, j \in 1..Len(sorted) :
          /\ i < j
          /\ sorted[i].runKey = sorted[j].runKey
          /\ ValidEvent(sorted[i]) /\ ValidEvent(sorted[j])
          /\ sorted[i].eventType \in TERMINAL_EVENT_TYPES
          /\ sorted[j].eventType \in RUNNING_EVENT_TYPES

\* C2: a finished reduction returned the rows and the terminals that reduce_events
\* returns for every other order of the same events.
C2_PermutationInvariance ==
    pc = "done" =>
        \A p \in PermutationsOf(events) :
            LET r == reduce_events(p, now_ms, stale_ms)
            IN  r.active_rows = active_rows /\ r.terminals = terminals

\* C5: the step that ends the fold expires exactly the runs of active whose lastSeenAtMs
\* is older than now_ms - stale_ms: each is out of the rows, is in terminals as
\* stale_expired at now_ms and is counted once; every other run of active keeps its row.
C5_StaleExpiry ==
    [][pc = "fold" /\ pc' = "done" =>
          LET old == {k \in DOMAIN active : active[k].lastSeenAtMs < now_ms - stale_ms}
          IN  /\ \A k \in old :
                    /\ k \notin RowKeys(active_rows')
                    /\ k \in DOMAIN terminals'
                    /\ terminals'[k] = [eventType |-> "stale_expired", eventAtMs |-> now_ms]
              /\ \A k \in DOMAIN active \ old :
                    /\ k \in RowKeys(active_rows')
                    /\ k \notin DOMAIN terminals'
              /\ dropped_stale' = Cardinality(old)]_vars

\* A finished reduction that expired one run and kept another.
C5_Witness ==
    /\ pc = "done"
    /\ dropped_stale >= 1
    /\ Len(active_rows) >= 1
    /\ \E k \in DOMAIN terminals : terminals[k].eventType = "stale_expired"

----------------------------------------------------------------------------
(* Claims about the collector and the journal *)

\* C3: a collector run that follows another collector run, with no producer file
\* changed in between, appends no line: the journal is unchanged and the run
\* reports appended = 0.
C3_IdempotentCollection ==
    [][(runs' = runs + 1 /\ runs >= 1 /\ ~changed)
          => (journal' = journal /\ appended' = 0)]_vars

\* Two runs on the same non-empty producer files with a journal that holds lines:
\* the second run appended nothing although it collected events.
C3_Witness ==
    /\ runs >= 2
    /\ ~changed
    /\ append_arg # <<>>
    /\ journal # <<>>
    /\ appended = 0

IsPrefix(s, t) == Len(s) <= Len(t) /\ \A i \in 1..Len(s) : t[i] = s[i]

NoDupIds(lines) ==
    \A i, j \in 1..Len(lines) : lines[i].eventId = lines[j].eventId => i = j

\* C4: starting from an empty journal, after every call of append_new_events each
\* event id is on at most one line of the journal, also when the call was handed
\* the same event twice, and the lines written by earlier calls are still there,
\* unchanged and in place.
C4_JournalAppendOnly ==
    [][IsPrefix(journal, journal') /\ NoDupIds(journal') /\ NoDupIds(journal)]_vars

\* A call handed the same event twice onto a journal that already holds a line:
\* it wrote the event once.
C4_Witness ==
    /\ Len(append_arg) >= 2
    /\ append_arg[1] = append_arg[2]
    /\ appended = 1
    /\ Len(journal) = 2
    /\ journal[2] = append_arg[1]

\* The journals the two invocations would have written one after the other, or one
\* of them alone, on the journal both started from (the empty one).
SerialJournals ==
    { append_new_events(<<>>, col_events[c]) : c \in Collectors }
    \cup { append_new_events(append_new_events(<<>>, col_events[c]), col_events[d])
             : c \in Collectors, d \in Collectors }

\* C8: when two collector invocations have interleaved on the journal, reducing the
\* journal they left gives the active rows, terminals and counts that reducing the
\* journal of a single run (either invocation alone, or the two in either order one
\* after the other) gives.
C8_ContentionTolerated ==
    (\A c \in Collectors : col_pc[c] = "done")
        => \E serial \in SerialJournals :
              \A now \in NowValues :
                  reduce_events(read_events(journal), now, DEFAULT_STALE_MS)
                      = reduce_events(read_events(serial), now, DEFAULT_STALE_MS)

----------------------------------------------------------------------------
(* Claims about the snapshot file and the payload builder's runtime *)

\* A snapshot file that is missing or cannot be read as a JSON object.
Unreadable(file) == ~file.exists \/ ~JsonLoads(file) \/ file.doc.kind # "dict"

C7_AtomicOverwrite ==
    [][(reads' = reads + 1 /\ mat_pc \in {"computed", "opened"}) =>
          runtime_state_file \in {prev_file, WholeFile(mat_state)}]_vars

\* C9: no active run of the runtime object runtime_activity returned names a job
\* whose name contains "control room status publish", and such a run does not make
\* the status "running".
C9_PublishJobExcluded ==
    /\ \A i \in 1..Len(runtime.activeRuns) : ~ExcludedJobName(runtime.activeRuns[i].jobName)
    /\ runtime.status = "running" =>
          \E i \in 1..Len(runtime.activeRuns) : ~ExcludedJobName(runtime.activeRuns[i].jobName)

\* The snapshot file exists, holds a whole JSON object with a materializedAtMs and a
\* list of active runs, and is at most 90 seconds old at `now`.
SnapshotUsable(file, now) ==
    /\ file.exists
    /\ file.written = "all"
    /\ file.doc.kind = "dict"
    /\ file.doc.materializedAtMs # NoneMs
    /\ file.doc.activeRuns.list
    /\ now - file.doc.materializedAtMs <= 90 * 1000

----------------------------------------------------------------------------
(* Claims about the live reconciliation pass *)

\* The run key of a row of runtime output (runtime_activity drops the runKey field).
RunKeyOfRow(row) ==
    IF row.activityType = "subagent" THEN row.jobId
    ELSE normalize_run_key("cron", row.jobId, row.sessionId, NoneStr)

LiveRunKeys(rows) == {RunKeyOfRow(rows[i]) : i \in 1..Len(rows)}

\* The run keys collect_events followed by reduce_events reports active.
LedgerRunKeys(paths, now, stale) ==
    RowKeys(reduce_events(read_events(append_new_events(<<>>, collect_events(paths))),
                          now, stale).active_rows)

\* C11: for the same producer files, the same now and the same stale window, the run
\* keys the live pass reports active are the run keys collect_events followed by
\* reduce_events reports active.
C11_LiveMatchesLedger ==
    reads = 1 => LiveRunKeys(runtime.activeRuns) = LedgerRunKeys(files, clock, RUNTIME_STALE_MS)

\* The cron sessions of the session store: <<job id, session id, key>>.
CronSessions(paths) ==
    { <<CronRunMatch(k).job_id, CronRunMatch(k).session_id, k>> :
        k \in {key \in DOMAIN paths.sessions_file.doc : CronRunMatch(key) # NoMatch} }

\* The run file of job_id holds a record with action "finished" and this session id.
HasFinishedRecord(paths, job_id, session_id) ==
    /\ job_id \in DOMAIN paths.runs_dir
    /\ \E i \in 1..Len(paths.runs_dir[job_id]) :
          /\ paths.runs_dir[job_id][i].action = "finished"
          /\ paths.runs_dir[job_id][i].sessionId = session_id

ReportedActive(rows, session_key) == \E i \in 1..Len(rows) : rows[i].sessionKey = session_key

\* C12: after a live pass, a cron session whose job's run file holds a "finished"
\* record with its session id is not reported active, and another session of the
\* same job without such a record, seen within the stale window, is reported active.
C12_FinishedSessionNotActive ==
    reads = 1 =>
      \A done \in CronSessions(files) :
         HasFinishedRecord(files, done[1], done[2]) =>
            /\ ~ReportedActive(runtime.activeRuns, done[3])
            /\ \A other \in CronSessions(files) :
                  ( /\ other[1] = done[1]
                    /\ ~HasFinishedRecord(files, other[1], other[2])
                    /\ clock - sb_parse_timestamp_ms(files.sessions_file.doc[other[3]].updatedAt)
                          <= RUNTIME_STALE_MS )
                  => ReportedActive(runtime.activeRuns, other[3])

----------------------------------------------------------------------------
(* Claims about sanitize_payload_for_static_snapshot *)

\* The runtime of a payload is the sanitized dict: idle and without runs.
SanitizedRuntime(out) ==
    /\ out.runtime.kind = "dict"
    /\ out.runtime.doc.activeRuns = <<>>
    /\ out.runtime.doc.status = "idle"
    /\ out.runtime.doc.activeCount = 0
    /\ out.runtime.doc.snapshotMode = "fallback-sanitized"

\* C13, as stated: for every input payload the result has runtime.activeRuns = [] and
\* runtime.status = "idle" (activeCount 0, snapshotMode "fallback-sanitized"), every
\* other key is as it was, and the input payload is not modified.
C13_SanitizedForEveryInput ==
    [][sanitized' # sanitized =>
          /\ SanitizedRuntime(sanitized')
          /\ sanitized'.other = input_payload.other
          /\ input_payload' = input_payload]_vars

\* C13, amended: the above for every input payload whose "runtime" is a dict; a payload
\* whose "runtime" is missing or no dict is returned as an unchanged copy.
C13_SanitizedWhenRuntimeIsDict ==
    [][sanitized' # sanitized =>
          /\ input_payload.runtime.kind = "dict" => SanitizedRuntime(sanitized')
          /\ input_payload.runtime.kind # "dict" => sanitized' = input_payload
          /\ sanitized'.other = input_payload.other
          /\ input_payload' = input_payload]_vars

C13_Witness ==
    /\ sanitized # NoPayload
    /\ SanitizedRuntime(sanitized)
    /\ input_payload.runtime.kind = "dict"
    /\ input_payload.runtime.doc.status = "running"
    /\ Len(input_payload.runtime.doc.activeRuns) = 2

----------------------------------------------------------------------------
(* Claims about build_workstream_lanes *)

SeqSet(s) == {s[i] : i \in 1..Len(s)}

\* The state file the last build found was written on the day of that build / on
\* another day.  While lane_built holds, the last build was at NowLocal.
PriorToday == lane_prior.exists /\ lane_prior.json /\ lane_prior.doc.day = NowLocal.day
PriorOtherDay == lane_prior.exists /\ lane_prior.json /\ lane_prior.doc.day # NowLocal.day

DocIds(doc) == SeqSet(doc.seenNow) \cup SeqSet(doc.done) \cup DOMAIN doc.labels

\* The future events and the runtime events of the build at NowLocal.
FutureEvents == timeline_events(plan_timeline, NowLocal) \o scheduled_job_events(plan_jobs, NowLocal)
RuntimeEvents == runtime_events(lane_runtime)

\* The ids in now or among the future events of the last build, and the ids of seenNow
\* that are in neither.
PresentIds == EventIds(lane_events.now_events) \cup EventIds(lane_events.next_events)
Transitioned == SeqSet(lane_prior.doc.seenNow) \ PresentIds

LaneLabels == SeqSet(workstream.now) \cup SeqSet(workstream.next)

\* C14, as stated: a build on another day than the day of the lane-state file yields an
\* empty done lane, and the state persisted carries the day of the build and none of
\* the ids of the former state.
C14_DayResetDropsEveryId ==
    (lane_built /\ PriorOtherDay) =>
        /\ workstream.done = <<>>
        /\ lane_state_file.doc.day = NowLocal.day
        /\ DocIds(lane_state_file.doc) \cap DocIds(lane_prior.doc) = {}

\* C14, amended: such a build yields an empty done lane, and the state persisted carries
\* the day of the build, an empty done list and no id but the ids of the events of
\* that build (a run that is still active, a job that is still due).
C14_DayResetKeepsOnlyEventsOfTheBuild ==
    (lane_built /\ PriorOtherDay) =>
        /\ workstream.done = <<>>
        /\ lane_state_file.doc.day = NowLocal.day
        /\ lane_state_file.doc.done = <<>>
        /\ DocIds(lane_state_file.doc) \subseteq EventIds(FutureEvents) \cup EventIds(RuntimeEvents)

\* C14: a build of day 2 found a state of day 1 with ids in seenNow, done and labels.
C14_Witness ==
    /\ lane_built
    /\ PriorOtherDay
    /\ lane_prior.doc.seenNow # <<>>
    /\ lane_prior.doc.done # <<>>
    /\ DocIds(lane_state_file.doc) \cap DocIds(lane_prior.doc) # {}
    /\ workstream.done = <<>>

\* What the claim has the done lane show for a label: "<end HH:MM> — X" for
\* "HH:MM-HH:MM — X", the label itself otherwise.
DoneEntry(label) == IF label.shape = "range" THEN TimeLabel(label.to, label.text) ELSE label

\* C15, as stated: within a day, every id of seenNow that is neither in now nor among
\* the future events is in the persisted done list (once), and its label, rewritten by
\* format_done_lane_item, is in the done lane; no id in now or among the future events
\* is in the persisted done list.
C15_TransitionedIsDone ==
    (lane_built /\ PriorToday) =>
        /\ \A id \in Transitioned :
              /\ id \in SeqSet(lane_state_file.doc.done)
              /\ DoneEntry(lane_state_file.doc.labels[id]) \in SeqSet(workstream.done)
        /\ \A i, j \in 1..Len(lane_state_file.doc.done) :
              lane_state_file.doc.done[i] = lane_state_file.doc.done[j] => i = j
        /\ \A id \in PresentIds : id \notin SeqSet(lane_state_file.doc.done)

\* C15, amended: the above for an id whose label is no label of the now or next lane,
\* when the done ids and the transitioned ids are five at most; and no id of the
\* persisted done list has a label of the now or next lane.
C15_TransitionedIsDoneUnlessHidden ==
    (lane_built /\ PriorToday) =>
        /\ \A id \in Transitioned :
              ( /\ lane_state_file.doc.labels[id] \notin LaneLabels
                /\ Cardinality(SeqSet(lane_prior.doc.done) \cup Transitioned) <= WORKSTREAM_DONE_LIMIT )
              => /\ id \in SeqSet(lane_state_file.doc.done)
                 /\ DoneEntry(lane_state_file.doc.labels[id]) \in SeqSet(workstream.done)
        /\ \A i, j \in 1..Len(lane_state_file.doc.done) :
              lane_state_file.doc.done[i] = lane_state_file.doc.done[j] => i = j
        /\ \A id \in SeqSet(lane_state_file.doc.done) : lane_state_file.doc.labels[id] \notin LaneLabels

\* C15: a block that was in now has ended in this build; its id is appended to the done
\* list and the done lane shows its end time and its task.
C15_Witness ==
    /\ lane_built
    /\ PriorToday
    /\ \E id \in Transitioned :
          /\ id \notin SeqSet(lane_prior.doc.done)
          /\ id \in SeqSet(lane_state_file.doc.done)
          /\ lane_state_file.doc.labels[id].shape = "range"
          /\ TimeLabel(lane_state_file.doc.labels[id].to, lane_state_file.doc.labels[id].text) \in SeqSet(workstream.done)

\* The events that have left now and the future events, and are still away.
LeftIds == DOMAIN left_at \ PresentIds

\* C16: the done lane is newest first: an entry whose event transitioned in a later
\* build is listed before an entry whose event transitioned in an earlier build (an
\* entry that stands for several events counts by the last of them, an entry listed
\* twice is left out of the comparison), and when more
\* than five events have transitioned the five shown are the five that transitioned last.
C16_DoneNewestFirst ==
    lane_built =>
        LET shown == SeqSet(lane_state_file.doc.done) \cap LeftIds
            entry(id) == format_done_lane_item(lane_state_file.doc.labels[id])
            builds_of(item) == {left_at[id] : id \in {x \in shown : entry(x) = item}}
            newest(item) == CHOOSE n \in builds_of(item) \cup {0} : \A m \in builds_of(item) : m <= n
            once(i) == \A k \in 1..Len(workstream.done) : workstream.done[k] = workstream.done[i] => k = i
        IN  /\ \A i, j \in 1..Len(workstream.done) :
                  (i < j /\ once(i) /\ once(j)) => newest(workstream.done[i]) >= newest(workstream.done[j])
            /\ Cardinality(LeftIds) > WORKSTREAM_DONE_LIMIT =>
                  /\ Len(workstream.done) = WORKSTREAM_DONE_LIMIT
                  /\ \A A \in shown : \A B \in LeftIds \ shown : left_at[B] <= left_at[A]

\* C17: at most 1 label in now, 5 in next and 5 in done, no label twice in a lane, no
\* label in two lanes.
C17_LanesCappedAndDistinct ==
    lane_built =>
        LET distinct(lane) == \A i, j \in 1..Len(lane) : lane[i] = lane[j] => i = j
        IN  /\ Len(workstream.now) <= WORKSTREAM_RUNTIME_NOW_LIMIT
            /\ Len(workstream.next) <= WORKSTREAM_NEXT_LIMIT
            /\ Len(workstream.done) <= WORKSTREAM_DONE_LIMIT
            /\ distinct(workstream.now)
            /\ distinct(workstream.next)
            /\ distinct(workstream.done)
            /\ SeqSet(workstream.now) \cap SeqSet(workstream.next) = {}
            /\ SeqSet(workstream.now) \cap SeqSet(workstream.done) = {}
            /\ SeqSet(workstream.next) \cap SeqSet(workstream.done) = {}

InStartOrder(evs) == \A i, j \in 1..Len(evs) : i < j => ~LaneEventLess(evs[j], evs[i])
Earliest(e, evs) == e \in SeqSet(evs) /\ \A other \in SeqSet(evs) : ~LaneEventLess(other, e)

\* C18: with a runtime event, now is the runtime event that started first (startMs,
\* then id) and next is all future events; without one and with a future event, now is
\* the first future event and next is the other future events, in the order of startMs,
\* then id.
C18_NowIsEarliest ==
    lane_built =>
        LET now_events == lane_events.now_events
            next_events == lane_events.next_events
        IN  IF RuntimeEvents # <<>>
            THEN /\ Len(now_events) = 1
                 /\ Earliest(now_events[1], RuntimeEvents)
                 /\ workstream.now = <<now_events[1].label>>
                 /\ SeqSet(next_events) = SeqSet(FutureEvents)
                 /\ Len(next_events) = Len(FutureEvents)
                 /\ InStartOrder(next_events)
            ELSE IF FutureEvents # <<>>
            THEN /\ Len(now_events) = 1
                 /\ Earliest(now_events[1], FutureEvents)
                 /\ workstream.now = <<now_events[1].label>>
                 /\ SeqSet(next_events) = SeqSet(FutureEvents) \ {now_events[1]}
                 /\ Len(next_events) = Len(FutureEvents) - 1
                 /\ InStartOrder(next_events)
                 /\ workstream.next = [i \in 1..Len(next_events) |-> next_events[i].label]
            ELSE now_events = <<>> /\ next_events = <<>> /\ workstream.now = <<>> /\ workstream.next = <<>>

\* C18: two runs are active, given latest first, while a block and a job are ahead: now
\* shows the run that started first and next the block and the job.
C18_Witness ==
    /\ lane_built
    /\ Len(lane_runtime.activeRuns) = 2
    /\ lane_runtime.activeRuns[1].startedAtMs > lane_runtime.activeRuns[2].startedAtMs
    /\ lane_events.now_events[1].id = RuntimeEventId(lane_runtime.activeRuns[2].sessionId)
    /\ Len(lane_events.next_events) >= 2

\* C19: no timeline block that ended at or before now and no scheduled job whose next
\* run is before now is in now or next, as an event or as a label.
C19_NoPastEvent ==
    lane_built =>
        LET at_ms == AtMinute(NowLocal.day, NowLocal.minute)
        IN  /\ \A i \in 1..Len(plan_timeline) :
                  AtMinute(NowLocal.day, plan_timeline[i].to) <= at_ms =>
                     /\ format_block(plan_timeline[i]) \notin LaneLabels
                     /\ \A e \in SeqSet(lane_events.now_events) \cup SeqSet(lane_events.next_events) :
                           e.label # format_block(plan_timeline[i])
            /\ \A i \in 1..Len(plan_jobs) :
                  plan_jobs[i].nextRunAtMs < at_ms =>
                     /\ JobEventId(plan_jobs[i].id, plan_jobs[i].nextRunAtMs) \notin PresentIds
                     /\ \A label \in LaneLabels : label.text # "Scheduled job: " \o plan_jobs[i].name

\* C19: a build at the very end of a block, the next block being in now.
C19_Witness ==
    /\ lane_built
    /\ \E i \in 1..Len(plan_timeline) : AtMinute(NowLocal.day, plan_timeline[i].to) = AtMinute(NowLocal.day, NowLocal.minute)
    /\ workstream.now # <<>>
    /\ workstream.now[1].shape = "range"

----------------------------------------------------------------------------
(* Claims about the MCP server *)

RECURSIVE IdsOf(_)
IdsOf(messages) ==
    IF messages = <<>> THEN <<>>
    ELSE IF Head(messages).id = NoId THEN IdsOf(Tail(messages))
    ELSE <<Head(messages).id>> \o IdsOf(Tail(messages))

\* The messages whose handling is over: all that were read, but the one being handled.
Handled == IF mcp_state.pc = "respond" THEN SubSeq(mcp_log, 1, Len(mcp_log) - 1) ELSE mcp_log

StdoutIds == [i \in 1..Len(mcp_stdout) |-> mcp_stdout[i].id]

\* C20, as stated: whenever the server reads or has ended, stdout holds one response
\* for each message read that carries an id, with that id, in the order of the
\* messages, and nothing for a message without an id; while a message is being
\* handled, stdout holds that for the messages read before it.
C20_OneResponsePerRequest == StdoutIds = IdsOf(Handled)

\* C20, amended: the above with a message of method notifications/initialized counted
\* as a notification whether or not it carries an id: nothing is written for it.
C20_OneResponsePerRequestButInitialized ==
    StdoutIds = IdsOf(SelectSeq(Handled, LAMBDA message : message.method # "notifications/initialized"))

\* C20: the server has answered two requests and written nothing for the
\* notifications/initialized between them, which carried an id.
C20_Witness ==
    /\ mcp_state.pc = "read"
    /\ Len(mcp_log) = 3
    /\ mcp_log[1] = Message(1, "initialize")
    /\ mcp_log[2] = Message(2, "notifications/initialized")
    /\ mcp_log[3] = Message(3, "tools/call")
    /\ StdoutIds = <<1, 3>>

\* The response written for the request numbered id, NoResponse when there is none.
ResponseTo(id) ==
    IF \E i \in 1..Len(mcp_stdout) : mcp_stdout[i].id = id
    THEN mcp_stdout[CHOOSE i \in 1..Len(mcp_stdout) : mcp_stdout[i].id = id]
    ELSE NoResponse

\* C21: once a shutdown has been handled, it is the last message the server read, the
\* server has exited with code 0, whatever is left on stdin, and the last response
\* on stdout, when the shutdown carried an id, is its empty result.
C21_ShutdownEndsLoop ==
    \A i \in 1..Len(Handled) :
        Handled[i].method = "shutdown" =>
            /\ i = Len(mcp_log)
            /\ mcp_state.pc = "exit"
            /\ mcp_state.exit_code = 0
            /\ Handled[i].id # NoId =>
                /\ mcp_stdout # <<>>
                /\ mcp_stdout[Len(mcp_stdout)] = jsonrpc_success(Handled[i].id, Result("empty"))

\* C21: the server has exited with code 0 after answering a shutdown, with a request
\* left unread on stdin.
C21_Witness ==
    /\ mcp_state.pc = "exit"
    /\ mcp_state.exit_code = 0
    /\ Len(mcp_log) = 2
    /\ mcp_log[2] = Message(2, "shutdown")
    /\ mcp_stdout[Len(mcp_stdout)] = jsonrpc_success(2, Result("empty"))
    /\ mcp_stdin = <<Message(3, "ping")>>

\* The server has not left its loop over the i-th message: it went on to read, and
\* where it has exited since, that was at the end of stdin or on an ill-framed message.
WentOnAfter(i) ==
    (i = Len(mcp_log) /\ mcp_state.pc = "exit") => (mcp_state.exit_code = 1 \/ mcp_stdin = <<>>)

\* A tools/call that fails: no name, no such tool, or a handler that raises.
FailedCall(message) ==
    /\ message.method = "tools/call"
    /\ \/ message.params.name = NoneStr
       \/ message.params.name \notin TOOL_HANDLERS
       \/ message.params.raises # NoneStr
       \/ message.params.name = "control-room.release.extract-notes" /\ message.params.version \notin ChangelogVersions

\* C22: a handled tools/call request that failed has on stdout a success response whose
\* result has isError true and structuredContent with ok false and an error; the server
\* went on after it, and the requests handled after it have their usual responses: the
\* empty result for ping, the catalog for tools/list, a result without isError for a
\* call that did not fail.
C22_FailedCallIsAnErrorResult ==
    \A i \in 1..Len(Handled) :
        (Handled[i].id # NoId /\ FailedCall(Handled[i])) =>
            /\ ResponseTo(Handled[i].id).kind = "result"
            /\ ResponseTo(Handled[i].id).result.shape = "tool_result"
            /\ ResponseTo(Handled[i].id).result.isError
            /\ ~ResponseTo(Handled[i].id).result.structuredContent.ok
            /\ ResponseTo(Handled[i].id).result.structuredContent.error # NoneStr
            /\ WentOnAfter(i)
            /\ \A j \in (i + 1)..Len(Handled) :
                /\ Handled[j].method = "ping" => ResponseTo(Handled[j].id) = jsonrpc_success(Handled[j].id, Result("empty"))
                /\ Handled[j].method = "tools/list" => ResponseTo(Handled[j].id) = jsonrpc_success(Handled[j].id, Result("tools"))
                /\ (Handled[j].id # NoId /\ Handled[j].method = "tools/call" /\ ~FailedCall(Handled[j])) =>
                    /\ ResponseTo(Handled[j].id).kind = "result"
                    /\ ~ResponseTo(Handled[j].id).result.isError
                    /\ ResponseTo(Handled[j].id).result.structuredContent.ok

\* C22: the release tool was called for a version the changelog does not have and the
\* status tool met an error of the file system; both were answered with error results,
\* and the ping after them with the empty result.
C22_Witness ==
    /\ mcp_state.pc = "read"
    /\ mcp_log = <<ToolCall(1, Params("control-room.release.extract-notes", "9.9.9", NoneStr)), ToolCall(2, Params("control-room.status.build", NoneStr, "OSError")), Message(3, "ping")>>
    /\ Len(mcp_stdout) = 3
    /\ mcp_stdout[1].result.isError
    /\ mcp_stdout[2].result.isError
    /\ mcp_stdout[3] = jsonrpc_success(3, Result("empty"))

\* C23: a step of the server at an ill-framed message ends it with code 1, with nothing
\* written and the message not handled; a step at the end of stdin ends it with code 0,
\* with nothing written; and the server, once ended, takes no step.
C23_TransportErrorsAreFatal ==
    [][/\ mcp_state.pc # "exit"
       /\ (mcp_state.pc = "read" /\ mcp_stdin # <<>> /\ Head(mcp_stdin).framing \in ProtocolErrors) =>
            /\ mcp_state'.pc = "exit"
            /\ mcp_state'.exit_code = 1
            /\ mcp_stdout' = mcp_stdout
            /\ mcp_log' = mcp_log
       /\ (mcp_state.pc = "read" /\ mcp_stdin = <<>>) =>
            /\ mcp_state'.pc = "exit"
            /\ mcp_state'.exit_code = 0
            /\ mcp_stdout' = mcp_stdout
            /\ mcp_log' = mcp_log]_vars

\* C23: the server has ended with code 1 at a payload that is no JSON, after answering
\* one request and with another left unread.
C23_Witness ==
    /\ mcp_state.pc = "exit"
    /\ mcp_state.exit_code = 1
    /\ mcp_state.stderr = "invalid JSON payload"
    /\ mcp_log = <<Message(1, "ping")>>
    /\ mcp_stdout = <<jsonrpc_success(1, Result("empty"))>>
    /\ mcp_stdin = <<Message(3, "ping")>>

\* The methods the server knows.
KnownMethods == {"initialize", "ping", "tools/list", "tools/call", "notifications/initialized", "shutdown"}

\* C24, as stated: a handled request with an id whose method is none of the six has the
\* error -32601 as its response, and the server went on after it.
C24_OtherMethodIsNotFound ==
    \A i \in 1..Len(Handled) :
        (Handled[i].id # NoId /\ Handled[i].method \notin KnownMethods) =>
            /\ ResponseTo(Handled[i].id) = jsonrpc_error(Handled[i].id, -32601)
            /\ WentOnAfter(i)

\* C24, amended: a handled request with an id whose method is a string and none of the
\* six has the error -32601 as its response; one whose method is not a string has the
\* error -32600; the server went on after either.
C24_OtherMethodIsNotFoundOrInvalid ==
    \A i \in 1..Len(Handled) :
        (Handled[i].id # NoId /\ Handled[i].method \notin KnownMethods) =>
            /\ Handled[i].method # NoneStr => ResponseTo(Handled[i].id) = jsonrpc_error(Handled[i].id, -32601)
            /\ Handled[i].method = NoneStr => ResponseTo(Handled[i].id) = jsonrpc_error(Handled[i].id, -32600)
            /\ WentOnAfter(i)

\* C24: the server has answered a request for a method it does not know with -32601,
\* one without a method with -32600, and the ping after them.
C24_Witness ==
    /\ mcp_state.pc = "read"
    /\ mcp_log = <<Message(1, "resources/list"), Message(2, NoneStr), Message(3, "ping")>>
    /\ mcp_stdout = <<jsonrpc_error(1, -32601), jsonrpc_error(2, -32600), jsonrpc_success(3, Result("empty"))>>

----------------------------------------------------------------------------
(* Claims about missing and damaged inputs *)

\* The events of the well-formed records of the producer files: what collect_events
\* returns when a jobs document that is damaged counts as one without jobs.
WellFormedEvents(paths) ==
    collect_events([paths EXCEPT !.jobs_file = IF load_jobs_raises(paths.jobs_file) = NoneStr THEN @ ELSE JobsDocument(TRUE, "object", "missing", <<>>)])

\* C25: a collector invocation raises nothing and returns the events of the
\* well-formed records of its producer files, whatever is missing or damaged in them.
C25_CollectorNeverFails ==
    collected.done =>
        /\ collected.raised = NoneStr
        /\ collected.events = WellFormedEvents(producer_files)

\* C26: build_payload raises nothing and returns a payload with all of its keys,
\* whatever is missing or damaged in the files it reads; the jobs of a damaged jobs
\* file are missing from nextJobs at worst.
C26_PayloadAlwaysRenders ==
    dashboard.done =>
        /\ dashboard.raised = NoneStr
        /\ DOMAIN dashboard.payload = PayloadKeys

----------------------------------------------------------------------------
(* Claims about the rows of the reducer and of the reconciler *)

\* C27: in every row reduce_events returns, and in every row reconcile returns,
\* lastSeenAtMs is not before startedAtMs.
C27_LastSeenNotBeforeStart ==
    /\ pc = "done" => \A i \in 1..Len(active_rows) : active_rows[i].lastSeenAtMs >= active_rows[i].startedAtMs
    /\ reads = 1 => \A i \in 1..Len(runtime.activeRuns) : runtime.activeRuns[i].lastSeenAtMs >= runtime.activeRuns[i].startedAtMs

\* C28, as stated: a step of the fold that merges a running event into the row its run
\* key has leaves the row with a startedAtMs and a lastSeenAtMs that are not smaller
\* than before.
C28_TimesNeverDecrease ==
    [][\A run_key \in DOMAIN active \cap DOMAIN active' :
          /\ active'[run_key].startedAtMs >= active[run_key].startedAtMs
          /\ active'[run_key].lastSeenAtMs >= active[run_key].lastSeenAtMs]_vars

\* C28, amended: such a step leaves the row with a startedAtMs that is not greater
\* than before, the smaller of the row's and the event's, and a lastSeenAtMs that is
\* not smaller than before, the greater of the two.
C28_StartNeverLaterSeenNeverEarlier ==
    [][\A run_key \in DOMAIN active \cap DOMAIN active' :
          /\ active'[run_key].startedAtMs <= active[run_key].startedAtMs
          /\ active'[run_key].lastSeenAtMs >= active[run_key].lastSeenAtMs
          /\ active'[run_key] # active[run_key] =>
                /\ active'[run_key].startedAtMs = Min(active[run_key].startedAtMs, IF sorted[idx].payload.startedAtMs # NoneMs THEN sorted[idx].payload.startedAtMs ELSE sorted[idx].eventAtMs)
                /\ active'[run_key].lastSeenAtMs = Max(active[run_key].lastSeenAtMs, IF sorted[idx].payload.lastSeenAtMs # NoneMs THEN sorted[idx].payload.lastSeenAtMs ELSE sorted[idx].eventAtMs)]_vars

\* C28: the fold has merged two heartbeats of the cron run; the first gave the row the
\* start 3, the second moved it to 1, and the last sighting stayed at 2.
C28_Witness ==
    /\ pc = "fold"
    /\ idx = 3
    /\ sorted[1].runKey = CronKey /\ sorted[1].eventType = "heartbeat" /\ sorted[1].payload.startedAtMs = 3
    /\ sorted[2].runKey = CronKey /\ sorted[2].eventType = "heartbeat" /\ sorted[2].payload.startedAtMs = 1
    /\ active[CronKey].startedAtMs = 1
    /\ active[CronKey].lastSeenAtMs = 2

\* The rows hold each run key once and stand in the order of (startedAtMs, runKey).
UniqueAndSorted(rows) ==
    \A i, j \in 1..Len(rows) :
        i < j =>
            /\ rows[i].runKey # rows[j].runKey
            /\ rows[i].startedAtMs <= rows[j].startedAtMs
            /\ rows[i].startedAtMs = rows[j].startedAtMs => StrLess(rows[i].runKey, rows[j].runKey)

\* C29: the rows reduce_events returns and the rows reconcile returns hold each run key
\* at most once and stand in ascending order of (startedAtMs, runKey), for the events
\* and candidates in every order.
C29_RowsUniqueAndSorted ==
    /\ pc = "done" => UniqueAndSorted(active_rows)
    /\ reads = 1 => UniqueAndSorted(runtime.activeRuns)

\* C29: the events came with the cron run first, which started after the sub-agent
\* run: both functions return the sub-agent run before the cron run.
C29_Witness ==
    /\ pc = "done"
    /\ reads = 1
    /\ Len(events) >= 2
    /\ events[1].runKey = CronKey
    /\ Len(active_rows) = 2
    /\ active_rows[1].runKey = SubagentKey /\ active_rows[2].runKey = CronKey
    /\ Len(runtime.activeRuns) = 2
    /\ runtime.activeRuns[1].runKey = SubagentKey /\ runtime.activeRuns[2].runKey = CronKey

----------------------------------------------------------------------------
(* build_event and normalize_terminal_event_type on the status labels of producers *)

\* The labels a producer file can carry in "status", "result" or "action": the
\* canonical types, the synonyms of lines 36-43, spellings that differ in case,
\* spaces and hyphens, labels the function does not know, and no string at all.
StatusLabels == TERMINAL_EVENT_TYPES \cup RUNNING_EVENT_TYPES \cup {"ok", "success", "succeeded", "complete", "completed", "done", "timeout", "timedout", "error", "errored", "failure", "canceled"} \cup {"OK", "Timed-Out", " failed ", "timed out", "FINISHED", "Canceled", "stale expired", "Started", " heartbeat ", "Time-Out", "progress", "unknown", NoneStr}

\* The labels that are neither a canonical terminal type nor a synonym of one.
UnknownLabels == {"started", "heartbeat", "Started", " heartbeat ", "Time-Out", "progress", "unknown", NoneStr}

NotLabelled == [done |-> FALSE, normalized |-> NoneStr, event |-> NoneStr]

InitLabels ==
    /\ event_label \in [label : StatusLabels, run_key : {CronKey, SubagentKey}, at : EventTimes]
    /\ built_event = NotLabelled
    /\ call_args = NoneStr
    /\ call_result = NoneStr
    /\ materializers = NoneStr
    /\ producer_files = NoneStr
    /\ collected = NoneStr
    /\ dashboard_files = NoneStr
    /\ dashboard = NoneStr
    /\ input_payload = NoPayload
    /\ sanitized = NoPayload
    /\ LaneOff
    /\ McpOff
    /\ ReduceOff
    /\ CollectOff
    /\ RaceOff
    /\ SnapshotOff

\* A producer's label is normalized and an event is built from it.
LabelEvent ==
    /\ ~built_event.done
    /\ built_event' = [done |-> TRUE, normalized |-> normalize_terminal_event_type(event_label.label), event |-> build_event(event_label.run_key, event_label.label, event_label.at, SkewSource(event_label.run_key), SkewOffset(event_label.run_key), EmptyPayload)]
    /\ UNCHANGED <<producer_files, collected, dashboard_files, dashboard, event_label, call_args, call_result, materializers>>
    /\ RobustFrame

NextLabels == LabelEvent

SpecLabels == InitLabels /\ [][NextLabels]_vars

\* C30: normalize_terminal_event_type returns a member of TERMINAL_EVENT_TYPES for
\* every label, returns "finished" for a label it does not know and for a value that
\* is no string, and maps its own result to itself; the eventType of every event
\* build_event produces is a running or a terminal type, and the exact labels
\* "started" and "heartbeat" are kept as they are.
C30_EventTypesAreClosed ==
    built_event.done =>
        /\ built_event.normalized \in TERMINAL_EVENT_TYPES
        /\ normalize_terminal_event_type(built_event.normalized) = built_event.normalized
        /\ event_label.label \in UnknownLabels => built_event.normalized = "finished"
        /\ built_event.event.eventType \in RUNNING_EVENT_TYPES \cup TERMINAL_EVENT_TYPES
        /\ event_label.label \in RUNNING_EVENT_TYPES => built_event.event.eventType = event_label.label
        /\ event_label.label \notin RUNNING_EVENT_TYPES => built_event.event.eventType = built_event.normalized

\* C30: a label in another spelling was normalized to its canonical type, and an
\* exact "heartbeat" went through build_event as it was.
C30_Witness ==
    /\ built_event.done
    /\ \/ event_label.label = "Timed-Out" /\ built_event.normalized = "timed_out" /\ built_event.event.eventType = "timed_out"
       \/ event_label.label = "heartbeat" /\ built_event.normalized = "finished" /\ built_event.event.eventType = "heartbeat"

----------------------------------------------------------------------------
(* resolve_active_work: the "Running now" value of the status file and the plan *)

\* A function of the dashboard builder is called on its own: no other part runs.
CallFrame == UNCHANGED <<reduceVars, collectVars, raceVars, snapshotVars, input_payload, sanitized, laneVars, mcpVars, producer_files, collected, dashboard_files, dashboard, event_label, built_event, call_args, materializers>>

NotCalled == [done |-> FALSE]

CallInit(args) ==
    /\ call_args \in args
    /\ call_result = NotCalled
    /\ materializers = NoneStr
    /\ producer_files = NoneStr
    /\ collected = NoneStr
    /\ dashboard_files = NoneStr
    /\ dashboard = NoneStr
    /\ event_label = NoneStr
    /\ built_event = NoneStr
    /\ input_payload = NoPayload
    /\ sanitized = NoPayload
    /\ LaneOff
    /\ McpOff
    /\ ReduceOff
    /\ CollectOff
    /\ RaceOff
    /\ SnapshotOff

ACTIVE_WORK_SINGLE_TIME_STALE_MINUTES == 90
ACTIVE_WORK_COMPLETED_STALE_MINUTES == 15
GRACE_MINUTES == 10

\* A time as it is written, "HH:MM", and the text that holds none.
Hhmm(hour, minute) == <<hour, minute>>
NoHhmm == <<>>

\* Lines 243-253: the minutes of a written time, None for an hour above 23 or a minute
\* above 59.
parse_hhmm_to_minutes(value) == IF value[1] > 23 \/ value[2] > 59 THEN NoneMs ELSE value[1] * 60 + value[2]

(* A "Running now" value is a string, given by what the patterns find in it:     *)
(*   text     "" for the empty string, "blank" for white space, "words" otherwise *)
(*   leading  the HH:MM the stripped text starts with (HEADING_TIME_RE.match)     *)
(*   from, to the first HH:MM-HH:MM anywhere in it (TIME_RANGE_RE.search)         *)
(*   token    whether it holds complete, completed, done or finished              *)
ActiveWork(text, leading, from, to, token) == [text |-> text, leading |-> leading, from |-> from, to |-> to, token |-> token]

\* Lines 256-265.
parse_time_range(value) ==
    IF value.from = NoHhmm THEN <<>>
    ELSE IF parse_hhmm_to_minutes(value.from) = NoneMs \/ parse_hhmm_to_minutes(value.to) = NoneMs THEN <<>>
    ELSE <<parse_hhmm_to_minutes(value.from), parse_hhmm_to_minutes(value.to)>>

\* Lines 268-272.
parse_leading_time_minutes(value) == IF value.leading = NoHhmm THEN NoneMs ELSE parse_hhmm_to_minutes(value.leading)

\* A variant that gives a time range the grace of ten minutes whatever the text says.
is_stale_active_work_GraceOnly(active_work, now_minutes) ==
    IF active_work.text # "words" THEN FALSE
    ELSE IF parse_time_range(active_work) # <<>>
    THEN now_minutes > parse_time_range(active_work)[2] + GRACE_MINUTES
    ELSE IF parse_leading_time_minutes(active_work) # NoneMs
    THEN IF parse_leading_time_minutes(active_work) > now_minutes THEN FALSE
         ELSE now_minutes - parse_leading_time_minutes(active_work) > (IF active_work.token THEN ACTIVE_WORK_COMPLETED_STALE_MINUTES ELSE ACTIVE_WORK_SINGLE_TIME_STALE_MINUTES)
    ELSE active_work.token

\* Lines 544-573.
is_stale_active_work(active_work, now_minutes) ==
    IF active_work.text # "words" THEN FALSE
    ELSE IF parse_time_range(active_work) # <<>>
    THEN now_minutes > parse_time_range(active_work)[2] + (IF active_work.token THEN ACTIVE_WORK_COMPLETED_STALE_MINUTES ELSE GRACE_MINUTES)
    ELSE IF parse_leading_time_minutes(active_work) # NoneMs
    THEN IF parse_leading_time_minutes(active_work) > now_minutes THEN FALSE
         ELSE now_minutes - parse_leading_time_minutes(active_work) > (IF active_work.token THEN ACTIVE_WORK_COMPLETED_STALE_MINUTES ELSE ACTIVE_WORK_SINGLE_TIME_STALE_MINUTES)
    ELSE active_work.token

\* Lines 502-539: the block the time of day lies in (the last such block of the plan)
\* and the blocks that start later, in the order of the plan.
timeline_context(timeline, now_minutes) ==
    LET here == {i \in 1..Len(timeline) : timeline[i].from <= now_minutes /\ now_minutes < timeline[i].to}
    IN  [ current |-> IF here = {} THEN <<>> ELSE <<timeline[CHOOSE i \in here : \A j \in here : j <= i]>>,
          next |-> SelectSeq(timeline, LAMBDA block : ~(block.from <= now_minutes /\ now_minutes < block.to) /\ now_minutes < block.from) ]

\* Line 593: f"Next up: {format_block(next_blocks[0])}".
NextUp(label) == [shape |-> "next up", from |-> label.from, to |-> label.to, text |-> label.text]

\* Lines 576-595.
resolve_active_work(raw_active_work, timeline, now_minutes) ==
    LET context == timeline_context(timeline, now_minutes)
    IN  IF raw_active_work.text # "" /\ ~is_stale_active_work(raw_active_work, now_minutes) THEN raw_active_work
        ELSE IF context.current # <<>> THEN format_block(context.current[1])
        ELSE IF context.next # <<>> THEN NextUp(format_block(context.next[1]))
        ELSE raw_active_work

\* The times a "Running now" value starts with: none, 08:29, 08:30, 09:44, 09:45, a
\* time later in the day, and digits that are no time of day.
LeadingTimes == {NoHhmm, Hhmm(8, 29), Hhmm(8, 30), Hhmm(9, 44), Hhmm(9, 45), Hhmm(11, 0), Hhmm(25, 0)}

\* The ends of the time range it holds.
RangeEnds == {Hhmm(9, 44), Hhmm(9, 45), Hhmm(9, 49), Hhmm(9, 50), Hhmm(10, 30), Hhmm(26, 0)}

ActiveWorkValues == {ActiveWork("", NoHhmm, NoHhmm, NoHhmm, FALSE), ActiveWork("blank", NoHhmm, NoHhmm, NoHhmm, FALSE)} \cup {ActiveWork("words", leading, NoHhmm, NoHhmm, token) : leading \in LeadingTimes, token \in BOOLEAN} \cup {ActiveWork("words", leading, Hhmm(8, 0), to, token) : leading \in {NoHhmm, Hhmm(8, 0)}, to \in RangeEnds, token \in BOOLEAN}

\* The plan: empty, a block that is over, a block around ten o'clock, a later block,
\* a block around ten o'clock and a later one.
ActiveWorkPlans == {<<>>, <<Block(420, 450, "Morning review")>>, <<Block(570, 630, "deep work")>>, <<Block(660, 690, "Transition block")>>, <<Block(570, 630, "deep work"), Block(660, 690, "Transition block")>>}

ActiveWorkNow == {600, 601}

InitActiveWork == CallInit([fn : {"resolve_active_work"}, raw_active_work : ActiveWorkValues, timeline : ActiveWorkPlans, now_minutes : ActiveWorkNow])

\* status_builder.py, line 2008: active_work = resolve_active_work(raw, timeline, now_local).
ResolveActiveWork ==
    /\ call_args.fn = "resolve_active_work"
    /\ ~call_result.done
    /\ call_result' = [done |-> TRUE, stale |-> is_stale_active_work(call_args.raw_active_work, call_args.now_minutes), value |-> resolve_active_work(call_args.raw_active_work, call_args.timeline, call_args.now_minutes)]
    /\ CallFrame

NextActiveWork == ResolveActiveWork

SpecActiveWork == InitActiveWork /\ [][NextActiveWork]_vars

\* The time range a value holds and the time it starts with, in minutes, when they
\* are times of day.
RangeEnd(w) == IF w.from # NoHhmm /\ w.from[1] <= 23 /\ w.from[2] <= 59 /\ w.to[1] <= 23 /\ w.to[2] <= 59 THEN w.to[1] * 60 + w.to[2] ELSE NoneMs
LeadingTime(w) == IF w.leading # NoHhmm /\ w.leading[1] <= 23 /\ w.leading[2] <= 59 THEN w.leading[1] * 60 + w.leading[2] ELSE NoneMs

\* What resolve_active_work puts in the place of a value: the current block, else
\* "Next up:" and the first block to come, else the value itself.
Replacement(raw, timeline, now) ==
    LET current == {i \in 1..Len(timeline) : timeline[i].from <= now /\ now < timeline[i].to}
        coming == {i \in 1..Len(timeline) : now < timeline[i].from}
        last == CHOOSE i \in current : \A j \in current : j <= i
        first == CHOOSE i \in coming : \A j \in coming : i <= j
    IN  IF current # {} THEN [shape |-> "range", from |-> timeline[last].from, to |-> timeline[last].to, text |-> timeline[last].task]
        ELSE IF coming # {} THEN [shape |-> "next up", from |-> timeline[first].from, to |-> timeline[first].to, text |-> timeline[first].task]
        ELSE raw

\* C31, as stated: the value is stale exactly when it holds a time range that ended
\* more than 10 minutes ago, or starts with a time more than 90 minutes ago (15 with a
\* completion token), or holds a completion token and no time; a fresh value is
\* returned unchanged and a stale one is replaced.
C31_StaleAsStated ==
    call_args.fn = "resolve_active_work" /\ call_result.done =>
        LET w == call_args.raw_active_work
            now == call_args.now_minutes
            stated == \/ RangeEnd(w) # NoneMs /\ now > RangeEnd(w) + 10
                      \/ LeadingTime(w) # NoneMs /\ now - LeadingTime(w) > (IF w.token THEN 15 ELSE 90)
                      \/ w.token /\ RangeEnd(w) = NoneMs /\ LeadingTime(w) = NoneMs
        IN  /\ call_result.stale = stated
            /\ call_result.value = IF stated THEN Replacement(w, call_args.timeline, now) ELSE w

\* C31, amended: the first resolvable time decides.  A value that holds a resolvable
\* time range is stale exactly when now is more than 10 minutes past the end of the
\* range (15 minutes with a completion token); a value without one that starts with a
\* resolvable time is stale exactly when that time is more than 90 minutes ago (15
\* with a completion token); a value with neither is stale exactly when it holds a
\* completion token.  A fresh value that is not empty is returned unchanged; a stale
\* or empty one is replaced.
C31_StaleByFirstResolvableTime ==
    call_args.fn = "resolve_active_work" /\ call_result.done =>
        LET w == call_args.raw_active_work
            now == call_args.now_minutes
            stale == IF RangeEnd(w) # NoneMs THEN now > RangeEnd(w) + (IF w.token THEN 15 ELSE 10)
                     ELSE IF LeadingTime(w) # NoneMs THEN now - LeadingTime(w) > (IF w.token THEN 15 ELSE 90)
                     ELSE w.token
        IN  /\ call_result.stale = stale
            /\ call_result.value = IF stale \/ w.text = "" THEN Replacement(w, call_args.timeline, now) ELSE w

\* C31: a value with a time range that ended 11 minutes ago and a completion token was
\* kept, and the same range without the token was replaced by the current block.
C31_Witness ==
    /\ call_args.fn = "resolve_active_work"
    /\ call_result.done
    /\ call_args.now_minutes = 600
    /\ call_args.raw_active_work.to = Hhmm(9, 49)
    /\ call_args.timeline = <<Block(570, 630, "deep work")>>
    /\ \/ call_args.raw_active_work.token /\ ~call_result.stale /\ call_result.value = call_args.raw_active_work
       \/ ~call_args.raw_active_work.token /\ call_result.stale /\ call_result.value = RangeLabel(570, 630, "deep work")

----------------------------------------------------------------------------
(* extract_release_notes on changelogs with headings of every kind *)

MaxLines == 4

\* The lines of a changelog: the title, the headings of two versions, a heading of
\* the same level that names no version, a heading one level down, an entry, a blank
\* line.
ChangelogLines == {ChangelogLine(1, NoneStr, "Changelog"), ChangelogLine(2, "1.0.0", "2026-02-17"), ChangelogLine(2, "0.9.0", "2026-02-10"), ChangelogLine(2, NoneStr, "Unreleased"), ChangelogLine(3, NoneStr, "Added"), ChangelogLine(0, NoneStr, "- One"), ChangelogLine(0, NoneStr, NoneStr)}

Changelogs == UNION { [1..n -> ChangelogLines] : n \in 0..MaxLines }

InitNotes == CallInit([fn : {"extract_release_notes"}, changelog_text : Changelogs, version : {"1.0.0", "9.9.9"}])

\* extract_release_notes.py, line 47: notes = extract_release_notes(text, args.version).
ExtractNotes ==
    /\ call_args.fn = "extract_release_notes"
    /\ ~call_result.done
    /\ call_result' = [done |-> TRUE, notes |-> extract_release_notes(call_args.changelog_text, call_args.version)]
    /\ CallFrame

NextNotes == ExtractNotes

SpecNotes == InitNotes /\ [][NextNotes]_vars

\* C32: when a "## v?X.Y.Z" heading carries the requested version, the notes are the
\* lines from the first such heading up to the next heading of the same level ("## "),
\* whatever that heading names; when no heading carries it, the call raises.
C32_OneSectionOnly ==
    call_args.fn = "extract_release_notes" /\ call_result.done =>
        LET lines == call_args.changelog_text
            heads == {i \in 1..Len(lines) : lines[i].level = 2 /\ lines[i].version = call_args.version}
            first == CHOOSE i \in heads : \A j \in heads : i <= j
            ends == {j \in 1..Len(lines) : j > first /\ lines[j].level = 2}
            last == IF ends = {} THEN Len(lines) ELSE (CHOOSE j \in ends : \A k \in ends : j <= k) - 1
        IN  IF heads = {} THEN call_result.notes.raised = "ValueError"
            ELSE /\ call_result.notes.raised = NoneStr
                 /\ call_result.notes.notes = StripLines(SubSeq(lines, first, last))

----------------------------------------------------------------------------
(* main_session_lock_active: the lock file beside the file of the main session *)

\* status_builder.py, line 67: 30 * 60 * 1000.
MAIN_SESSION_LOCK_STALE_MS == 1800000

(* The "pid" of a lock document and the process it names:                        *)
(*   type     "none" (no pid), "int", "str" (a pid written as a string)           *)
(*   v        the number                                                          *)
(*   process  "own" (a process of this user), "foreign" (a process of another    *)
(*            user), "none" (no such process)                                     *)
LockPid(type, v, process) == [type |-> type, v |-> v, process |-> process]
NoPid == LockPid("none", 0, "none")

(* The lock file: "missing", "not utf-8", "invalid json", "list" (JSON that is no *)
(* object) or "dict" with its createdAt and pid.                                  *)
LockFile(kind, created_at, pid) == [kind |-> kind, createdAt |-> created_at, pid |-> pid]

\* Lines 1365-1372: os.kill(pid, 0) raises OSError when there is no such process
\* (ProcessLookupError) and when the process is another user's and the caller is not
\* the superuser (PermissionError).
is_live_pid(pid, superuser) ==
    IF pid.v <= 0 THEN FALSE
    ELSE IF pid.process = "none" THEN FALSE
    ELSE IF pid.process = "foreign" /\ ~superuser THEN FALSE
    ELSE TRUE

\* Lines 1375-1396: the exception the call ends with (NoneStr when it returns) and
\* the value it returns.
main_session_lock_active(lock_file, now, superuser) ==
    IF lock_file.kind = "missing" THEN [raised |-> NoneStr, active |-> FALSE]
    ELSE IF lock_file.kind = "not utf-8" THEN [raised |-> "UnicodeDecodeError", active |-> FALSE]
    ELSE IF lock_file.kind # "dict" THEN [raised |-> NoneStr, active |-> FALSE]
    ELSE LET created_at_ms == sb_parse_timestamp_ms(lock_file.createdAt)
         IN  IF created_at_ms # NoneMs /\ now - created_at_ms > MAIN_SESSION_LOCK_STALE_MS THEN [raised |-> NoneStr, active |-> FALSE]
             ELSE IF lock_file.pid.type = "int" THEN [raised |-> NoneStr, active |-> is_live_pid(lock_file.pid, superuser)]
             ELSE [raised |-> NoneStr, active |-> created_at_ms # NoneMs /\ now - created_at_ms <= MAIN_SESSION_LOCK_STALE_MS]

LockNow == 2000000

\* createdAt: missing, a second more than 30 minutes ago, exactly 30 minutes ago, a
\* second ago, in the future.
LockCreatedAt == {NoTs, Ms(LockNow - MAIN_SESSION_LOCK_STALE_MS - 1000), Ms(LockNow - MAIN_SESSION_LOCK_STALE_MS), Ms(LockNow - 1000), Ms(LockNow + 1000)}

LockPids == {NoPid, LockPid("int", 0, "none"), LockPid("int", 4242, "own"), LockPid("int", 4243, "none"), LockPid("int", 1, "foreign"), LockPid("str", 4242, "own")}

LockFiles == {LockFile(kind, NoTs, NoPid) : kind \in {"missing", "not utf-8", "invalid json", "list"}} \cup {LockFile("dict", created_at, pid) : created_at \in LockCreatedAt, pid \in LockPids}

InitLock == CallInit([fn : {"main_session_lock_active"}, lock_file : LockFiles, now_ms : {LockNow, LockNow + 1000}, superuser : BOOLEAN])

\* status_builder.py, line 1508: lock_active = main_session_lock_active(session_file, now_ms).
ProbeLock ==
    /\ call_args.fn = "main_session_lock_active"
    /\ ~call_result.done
    /\ call_result' = [done |-> TRUE, lock |-> main_session_lock_active(call_args.lock_file, call_args.now_ms, call_args.superuser)]
    /\ CallFrame

NextLock == ProbeLock

SpecLock == InitLock /\ [][NextLock]_vars

\* C33: the probe returns, and the lock counts as active only if the file is there and
\* readable, its createdAt is there and not more than 30 minutes before now, and its
\* pid, when it has one, is the pid of a live process.
C33_LockActiveOnlyIfFreshAndLive ==
    call_args.fn = "main_session_lock_active" /\ call_result.done =>
        LET lock == call_args.lock_file
        IN  /\ call_result.lock.raised = NoneStr
            /\ call_result.lock.active =>
                  /\ lock.kind = "dict"
                  /\ lock.createdAt # NoTs
                  /\ call_args.now_ms - lock.createdAt.v <= 30 * 60 * 1000
                  /\ lock.pid.type # "none" => lock.pid.process # "none"

----------------------------------------------------------------------------
(* materialize_runtime_state again and again on a journal that grows *)

MaxNow == 5

\* The journal when the first reduction runs: empty or one heartbeat at time 1.
InitRepeat ==
    /\ events \in {<<>>} \cup {<<build_event(run_key, "heartbeat", 1, SkewSource(run_key), SkewOffset(run_key), SkewPayload(run_key, 1, 1))>> : run_key \in {CronKey, SubagentKey}}
    /\ now_ms = 1
    /\ stale_ms \in StaleValues
    /\ pc = "idle"
    /\ sorted = <<>>
    /\ idx = 1
    /\ active = EmptyDict
    /\ terminals = EmptyDict
    /\ dropped_stale = 0
    /\ active_rows = <<>>
    /\ CollectOff
    /\ RaceOff
    /\ SnapshotOff
    /\ ViewOff

\* Time passes.
NowAdvance ==
    /\ pc = "idle"
    /\ now_ms < MaxNow
    /\ now_ms' = now_ms + 1
    /\ UNCHANGED <<events, stale_ms, pc, sorted, idx, active, terminals, dropped_stale, active_rows>>
    /\ UNCHANGED OutsideReduce

\* The collector appends a heartbeat of a run, seen at the present time, to the journal.
JournalHeartbeat ==
    /\ pc = "idle"
    /\ Len(events) < MaxEvents
    /\ \E run_key \in {CronKey, SubagentKey} :
          events' = Append(events, build_event(run_key, "heartbeat", now_ms, SkewSource(run_key), SkewOffset(run_key), SkewPayload(run_key, now_ms, now_ms)))
    /\ UNCHANGED <<now_ms, stale_ms, pc, sorted, idx, active, terminals, dropped_stale, active_rows>>
    /\ UNCHANGED OutsideReduce

\* The collector appends the end of the cron run to the journal.
JournalFinished ==
    /\ pc = "idle"
    /\ Len(events) < MaxEvents
    /\ events' = Append(events, build_event(CronKey, "finished", now_ms, "cron-runs", "job-1.jsonl:1", EmptyPayload))
    /\ UNCHANGED <<now_ms, stale_ms, pc, sorted, idx, active, terminals, dropped_stale, active_rows>>
    /\ UNCHANGED OutsideReduce

\* materialize_runtime_state.py, lines 199-200: events = read_events(events_file);
\* active_rows, terminals, dropped_stale = reduce_events(events, now_ms, stale_ms).
ReduceAgain ==
    /\ pc = "idle"
    /\ LET reduced == reduce_events(events, now_ms, stale_ms)
       IN  /\ active_rows' = reduced.active_rows
           /\ terminals' = reduced.terminals
           /\ dropped_stale' = reduced.dropped_stale
    /\ UNCHANGED <<events, now_ms, stale_ms, pc, sorted, idx, active>>
    /\ UNCHANGED OutsideReduce

NextRepeat == NowAdvance \/ JournalHeartbeat \/ JournalFinished \/ ReduceAgain

SpecRepeat == InitRepeat /\ [][NextRepeat]_vars

\* C34: a run key the last reduction expired as stale is in no active row of the next
\* reduction, whatever was appended to the journal and however far the time went on
\* in between.
C34_StaleExpiredIsAbsorbing ==
    [][\A run_key \in DOMAIN terminals :
          terminals[run_key].eventType = "stale_expired" => \A i \in 1..Len(active_rows') : active_rows'[i].runKey # run_key]_vars

----------------------------------------------------------------------------
(* Claims about the terminals and the counts of reduce_events *)

\* The rank of a source: cron-runs before subagent-registry before sessions-store
\* before every other source.
SourceRank(source) == IF source = "cron-runs" THEN 0 ELSE IF source = "subagent-registry" THEN 1 ELSE IF source = "sessions-store" THEN 2 ELSE 3

\* Event a stands before event b in the canonical order: the smaller eventAtMs, then
\* the smaller rank of the source, then the smaller sourceOffset, then the smaller
\* eventId.
CanonicallyBefore(a, b) ==
    \/ a.eventAtMs < b.eventAtMs
    \/ a.eventAtMs = b.eventAtMs /\ SourceRank(a.source) < SourceRank(b.source)
    \/ a.eventAtMs = b.eventAtMs /\ SourceRank(a.source) = SourceRank(b.source) /\ StrLess(a.sourceOffset, b.sourceOffset)
    \/ a.eventAtMs = b.eventAtMs /\ SourceRank(a.source) = SourceRank(b.source) /\ a.sourceOffset = b.sourceOffset /\ IdLess(a.eventId, b.eventId)

\* The positions of the valid terminal events of a run key in the events.
TerminalsOf(run_key) == {i \in 1..Len(events) : ValidEvent(events[i]) /\ events[i].runKey = run_key /\ events[i].eventType \in {"finished", "failed", "cancelled", "timed_out", "stale_expired"}}

\* C35: for every run key that has terminal events, the terminals map of reduce_events
\* holds the type and the time of the terminal event that no other terminal event of
\* the key stands before in the canonical order, during the fold once that event is
\* folded and after it.
C35_FirstTerminalWins ==
    \A run_key \in {events[i].runKey : i \in 1..Len(events)} :
        LET first == {i \in TerminalsOf(run_key) : \A j \in TerminalsOf(run_key) : ~CanonicallyBefore(events[j], events[i])}
        IN  /\ pc = "done" /\ TerminalsOf(run_key) # {} => run_key \in DOMAIN terminals
            /\ pc \in {"fold", "done"} /\ run_key \in DOMAIN terminals /\ TerminalsOf(run_key) # {} =>
                  \E i \in first : terminals[run_key] = [eventType |-> events[i].eventType, eventAtMs |-> events[i].eventAtMs]

\* C35: the events hold the failure of the cron run at time 1 (second line of the run
\* file) before its end at time 1 (first line), and the map holds "finished".
C35_Witness ==
    /\ pc = "done"
    /\ Len(events) >= 2
    /\ events[1].runKey = CronKey /\ events[1].eventType = "failed" /\ events[1].eventAtMs = 1
    /\ events[2].runKey = CronKey /\ events[2].eventType = "finished" /\ events[2].eventAtMs = 1
    /\ terminals[CronKey] = [eventType |-> "finished", eventAtMs |-> 1]

----------------------------------------------------------------------------
(* Two materialize_runtime_state calls at a time on one snapshot file *)

Materializers == {"first", "second"}

\* The snapshot file before the calls: missing, or a snapshot at revision 7.
InitMatRace ==
    /\ files = InitFiles
    /\ journal \in {<<>>, <<build_event(CronKey, "heartbeat", 2, "sessions-store", SkewOffset(CronKey), SkewPayload(CronKey, 2, 2))>>}
    /\ append_arg = <<>>
    /\ appended = 0
    /\ runs = 0
    /\ changed = FALSE
    /\ runtime_state_file \in {MissingFile, WholeFile(OldSnapshot(FormatRevision(7)))}
    /\ clock \in {FirstClock, FirstClock + 1}
    /\ ticks = 0
    /\ mat_pc = "off"
    /\ mat_state = NoDoc
    /\ prev_file = MissingFile
    /\ last_revision = NoneMs
    /\ calls = 0
    /\ runtime = NoRuntime
    /\ reads = 0
    /\ materializers = [m \in Materializers |-> [pc |-> "idle", runtime_state |-> NoDoc, calls |-> 0]]
    /\ producer_files = NoneStr
    /\ collected = NoneStr
    /\ dashboard_files = NoneStr
    /\ dashboard = NoneStr
    /\ event_label = NoneStr
    /\ built_event = NoneStr
    /\ call_args = NoneStr
    /\ call_result = NoneStr
    /\ input_payload = NoPayload
    /\ sanitized = NoPayload
    /\ LaneOff
    /\ McpOff
    /\ ReduceOff
    /\ RaceOff

MatRaceFrame == UNCHANGED <<reduceVars, collectVars, raceVars, input_payload, sanitized, laneVars, mcpVars, producer_files, collected, dashboard_files, dashboard, event_label, built_event, call_args, call_result>>

\* materialize_runtime_state.py, lines 196-216: a call reads the journal and the
\* revision of the snapshot file and builds its runtime_state.
MatRead(m) ==
    /\ materializers[m].pc = "idle"
    /\ materializers[m].calls < MaxCalls
    /\ materializers' = [materializers EXCEPT ![m].pc = "computed", ![m].runtime_state = materialize_runtime_state(journal, runtime_state_file, clock, DEFAULT_STALE_MS)]
    /\ UNCHANGED <<runtime_state_file, clock, ticks, mat_pc, mat_state, prev_file, last_revision, calls, runtime, reads>>
    /\ MatRaceFrame

\* Lines 218-220: the call puts its runtime_state in the place of the file's content.
MatReplace(m) ==
    /\ materializers[m].pc = "computed"
    /\ runtime_state_file' = WholeFile(materializers[m].runtime_state)
    /\ prev_file' = runtime_state_file
    /\ materializers' = [materializers EXCEPT ![m].pc = "idle", ![m].calls = @ + 1]
    /\ UNCHANGED <<clock, ticks, mat_pc, mat_state, last_revision, calls, runtime, reads>>
    /\ MatRaceFrame

MatReadStep == \E m \in Materializers : MatRead(m)
MatReplaceStep == \E m \in Materializers : MatReplace(m)

NextMatRace == MatReadStep \/ MatReplaceStep

SpecMatRace == InitMatRace /\ [][NextMatRace]_vars

\* C36: every write that replaces the snapshot file leaves it with a revision number
\* greater than the one it had, also when the two calls read the file before either
\* of them writes.
C36_ReplacementIncrementsRevision ==
    [][\A m \in Materializers :
          materializers[m].pc = "computed" /\ materializers'[m].pc = "idle" =>
              parse_revision_number(runtime_state_file') > parse_revision_number(runtime_state_file)]_vars

----------------------------------------------------------------------------
(* Claims about repeated builds of the lanes *)

\* C37: after a build, a second build_workstream_lanes with the same timeline, jobs,
\* runtime and now_local on the state file the first one wrote returns the same now,
\* next and done lanes and writes the same lane state.
C37_RebuildIsStable ==
    lane_built =>
        LET again == build_workstream_lanes(plan_timeline, plan_jobs, lane_runtime, NowLocal, lane_state_file)
        IN  /\ again.output = workstream
            /\ again.state = lane_state_file

\* C38: in the lane state a build has written, the done list holds no id twice and
\* only ids of seenNow, and a build on the same day leaves every id of seenNow in
\* seenNow.
C38_DoneWithinSeenNowAndSeenNowGrows ==
    /\ [](lane_state_file.json =>
             /\ \A i, j \in 1..Len(lane_state_file.doc.done) : i # j => lane_state_file.doc.done[i] # lane_state_file.doc.done[j]
             /\ \A i \in 1..Len(lane_state_file.doc.done) : \E j \in 1..Len(lane_state_file.doc.seenNow) : lane_state_file.doc.seenNow[j] = lane_state_file.doc.done[i])
    /\ [][lane_state_file.json /\ lane_state_file'.doc.day = lane_state_file.doc.day =>
             \A i \in 1..Len(lane_state_file.doc.seenNow) : \E j \in 1..Len(lane_state_file'.doc.seenNow) : lane_state_file'.doc.seenNow[j] = lane_state_file.doc.seenNow[i]]_vars

\* C38: the third build of a day or a later one has written a state with two done ids
\* or more, and more ids in seenNow than in done.
C38_Witness ==
    /\ lane_built
    /\ lane_builds >= 3
    /\ lane_state_file.json
    /\ lane_prior.json
    /\ lane_prior.doc.day = lane_state_file.doc.day
    /\ Len(lane_state_file.doc.done) >= 2
    /\ Len(lane_state_file.doc.seenNow) > Len(lane_state_file.doc.done)
    /\ Len(lane_state_file.doc.seenNow) > Len(lane_prior.doc.seenNow)

----------------------------------------------------------------------------
(* Claims about the partition of the run keys by reduce_events *)

\* The run keys with a valid event of a running or a terminal type in the events.
KeysWithRunningOrTerminal == {events[i].runKey : i \in {j \in 1..Len(events) : ValidEvent(events[j]) /\ (events[j].eventType \in RUNNING_EVENT_TYPES \/ is_terminal_event_type(events[j].eventType))}}

\* The terminals the sweep made: the keys of terminals with no terminal event of
\* their own in the events.
SynthesizedStale == {k \in DOMAIN terminals : TerminalsOf(k) = {}}

\* C39: after reduce_events no run key is both in an active row and in terminals, every
\* run key with a valid running or terminal event is in one of the two, the
\* dropped-stale count is the number of stale_expired entries the sweep made, and in
\* the snapshot materialize_runtime_state builds from the same events
\* droppedStaleCount <= terminalCount and status is "running" iff activeCount > 0.
C39_KeysPartitioned ==
    pc = "done" =>
        LET snapshot == materialize_runtime_state(events, MissingFile, now_ms, stale_ms)
        IN  /\ RowKeys(active_rows) \cap DOMAIN terminals = {}
            /\ KeysWithRunningOrTerminal = RowKeys(active_rows) \cup DOMAIN terminals
            /\ \A k \in SynthesizedStale : terminals[k] = [eventType |-> "stale_expired", eventAtMs |-> now_ms]
            /\ dropped_stale = Cardinality(SynthesizedStale)
            /\ snapshot.activeCount = Cardinality(RowKeys(active_rows))
            /\ snapshot.terminalCount = Cardinality(DOMAIN terminals)
            /\ snapshot.droppedStaleCount = dropped_stale
            /\ snapshot.droppedStaleCount <= snapshot.terminalCount
            /\ snapshot.status = "running" <=> snapshot.activeCount > 0
            /\ snapshot.status \in {"running", "idle"}

\* C39: a finished reduction with one run ended by an event of the journal and the
\* other expired by the sweep, and another event of the journal that is no valid one.
C39_Witness ==
    /\ pc = "done"
    /\ Cardinality(DOMAIN terminals) = 2
    /\ Cardinality(SynthesizedStale) = 1
    /\ active_rows = <<>>
    /\ \E i \in 1..Len(events) : ~ValidEvent(events[i])

----------------------------------------------------------------------------
(* scripts/lib/status_builder.py: build_skills_payload *)

\* Line 175.
SKILL_MAX_TIER == 5

\* Lines 89-96: the keywords of a skill, in the order of the tuple.
SKILL_KEYWORDS(skill_id) ==
    CASE skill_id = "runtime-orchestration" -> <<"runtime", "orchestration", "scheduler", "cron", "subagent", "queue">>
      [] skill_id = "reliability-guardrails" -> <<"reliability", "watchdog", "self-heal", "guardrail", "failover", "degraded">>
      [] skill_id = "ui-systems" -> <<"ui", "ux", "dashboard", "react", "mobile", "accessibility">>
      [] skill_id = "release-operations" -> <<"release", "tag", "version", "changelog", "publish", "quality gate">>
      [] skill_id = "memory-evolution" -> <<"memory", "evolution", "artifact", "learning", "pattern", "distilled">>
      [] skill_id = "observability" -> <<"trend", "signal", "telemetry", "monitor", "status", "source">>
      [] OTHER -> <<>>

\* Lines 97-140: the catalogue, in its order, with the fields the states depend on.
SKILL_CATALOG ==
    << [id |-> "runtime-orchestration", name |-> "Runtime Orchestration", dependencies |-> <<>>],
       [id |-> "reliability-guardrails", name |-> "Reliability Guardrails", dependencies |-> <<"runtime-orchestration">>],
       [id |-> "ui-systems", name |-> "UI Systems", dependencies |-> <<"runtime-orchestration">>],
       [id |-> "observability", name |-> "Observability", dependencies |-> <<"runtime-orchestration">>],
       [id |-> "release-operations", name |-> "Release Operations", dependencies |-> <<"reliability-guardrails", "observability">>],
       [id |-> "memory-evolution", name |-> "Memory Evolution", dependencies |-> <<"reliability-guardrails", "ui-systems">>] >>

(* The joined, lower-cased text of the artifacts is the number of occurrences *)
(* of each keyword it holds: a function from the keywords that occur to their *)
(* counts.                                                                     *)

\* weighted_text.count(keyword).
CountIn(weighted_text, keyword) == IF keyword \in DOMAIN weighted_text THEN weighted_text[keyword] ELSE 0

\* Lines 1067-1069: hits, the sum of the counts of the keywords.
RECURSIVE KeywordHits(_, _)
KeywordHits(weighted_text, keywords) == IF keywords = <<>> THEN 0 ELSE CountIn(weighted_text, Head(keywords)) + KeywordHits(weighted_text, Tail(keywords))

\* Lines 1071-1074: progress = max(0.0, min(1.0, hits / 8.0)), the tier
\* int(progress * SKILL_MAX_TIER) within 0..SKILL_MAX_TIER, raised to 1 when progress
\* is above 0.  hits / 8.0 and its product with 5 are exact in binary floating point.
inferred_tier(hits) ==
    LET eighths == Max(0, Min(8, hits))
        tier == Max(0, Min(SKILL_MAX_TIER, (eighths * SKILL_MAX_TIER) \div 8))
    IN  IF eighths > 0 /\ tier = 0 THEN 1 ELSE tier

\* The variant that takes a dependency as met once its node is listed.
deps_met_Listed(deps, skill_nodes) ==
    \A d \in 1..Len(deps) : \E n \in 1..Len(skill_nodes) : skill_nodes[n].id = deps[d]

\* Line 1077: every dependency has a node among those built so far whose state is
\* "active".
deps_met(deps, skill_nodes) ==
    \A d \in 1..Len(deps) : \E n \in 1..Len(skill_nodes) : skill_nodes[n].id = deps[d] /\ skill_nodes[n].state = "active"

\* Lines 1065-1119: the node of the catalogue entry at position graph_tier, after the
\* nodes of the entries before it.
SkillNode(weighted_text, graph_tier, skill_nodes) ==
    LET spec == SKILL_CATALOG[graph_tier]
        hits == KeywordHits(weighted_text, SKILL_KEYWORDS(spec.id))
        met == deps_met(spec.dependencies, skill_nodes)
        current_tier == IF met THEN inferred_tier(hits) ELSE 0
        state == IF current_tier >= 3 /\ met THEN "active"
                 ELSE IF current_tier > 0 /\ met THEN "planned"
                 ELSE "locked"
    IN  [ id |-> spec.id, name |-> spec.name, state |-> state, tier |-> graph_tier,
          currentTier |-> current_tier, maxTier |-> SKILL_MAX_TIER,
          nextTier |-> IF current_tier < SKILL_MAX_TIER THEN current_tier + 1 ELSE NoneMs,
          dependencies |-> spec.dependencies, level |-> current_tier ]

\* Line 1065: the loop over the catalogue, up to position n.
RECURSIVE SkillNodes(_, _)
SkillNodes(weighted_text, n) ==
    IF n = 0 THEN <<>>
    ELSE LET before == SkillNodes(weighted_text, n - 1)
         IN  Append(before, SkillNode(weighted_text, n, before))

\* Lines 1055-1134: the counts and the nodes of the payload.
build_skills_payload(weighted_text) ==
    LET skill_nodes == SkillNodes(weighted_text, Len(SKILL_CATALOG))
        count(state) == Cardinality({n \in 1..Len(skill_nodes) : skill_nodes[n].state = state})
    IN  [ activeCount |-> count("active"), plannedCount |-> count("planned"),
          lockedCount |-> count("locked"), nodes |-> skill_nodes ]

\* The keywords the artifacts of the model hold: two of runtime-orchestration and one
\* of every other skill.
TextKeywords == {"runtime", "cron", "watchdog", "dashboard", "telemetry", "release", "memory"}

\* The occurrences of a keyword: none, one (tier 1 by promotion), four (tier 2), five
\* (tier 3), eight (tier 5).
HitCounts == {0, 1, 4, 5, 8}

WeightedTexts == {t \in [TextKeywords -> HitCounts] : t["runtime"] \in {0, 1, 4} /\ t["cron"] \in {0, 1, 4}}

InitSkills == CallInit([fn : {"build_skills_payload"}, weighted_text : WeightedTexts])

\* status_builder.py, line 2037: "skills": build_skills_payload(workspace_root, now_local).
BuildSkills ==
    /\ call_args.fn = "build_skills_payload"
    /\ ~call_result.done
    /\ call_result' = [done |-> TRUE, skills |-> build_skills_payload(call_args.weighted_text)]
    /\ CallFrame

NextSkills == BuildSkills

SpecSkills == InitSkills /\ [][NextSkills]_vars

\* The dependencies of the catalogue entry at position i all have a node whose state
\* is "active".
DependenciesActive(nodes, i) ==
    \A d \in 1..Len(SKILL_CATALOG[i].dependencies) :
        \E n \in 1..Len(nodes) : nodes[n].id = SKILL_CATALOG[i].dependencies[d] /\ nodes[n].state = "active"

\* C40: in the payload of build_skills_payload every catalogue skill has one node; a
\* node is active only if its dependencies are all active and its current tier is at
\* least 3, planned only if its dependencies are all active and its current tier is
\* above 0, and locked exactly when its dependencies are not all active or its tier
\* is 0; a node with an inactive dependency has currentTier 0; every currentTier is
\* within 0..5; the three counts are the numbers of nodes of each state and add up to
\* the six skills of the catalogue.
C40_SkillStates ==
    call_args.fn = "build_skills_payload" /\ call_result.done =>
        LET skills == call_result.skills
            nodes == skills.nodes
        IN  /\ Len(nodes) = Len(SKILL_CATALOG)
            /\ \A i \in 1..Len(nodes) :
                  /\ nodes[i].id = SKILL_CATALOG[i].id
                  /\ nodes[i].state \in {"active", "planned", "locked"}
                  /\ nodes[i].state = "active" => DependenciesActive(nodes, i) /\ nodes[i].currentTier >= 3
                  /\ nodes[i].state = "planned" => DependenciesActive(nodes, i) /\ nodes[i].currentTier > 0
                  /\ nodes[i].state = "locked" <=> ~(DependenciesActive(nodes, i) /\ nodes[i].currentTier > 0)
                  /\ ~DependenciesActive(nodes, i) => nodes[i].currentTier = 0
                  /\ nodes[i].currentTier \in 0..5
            /\ skills.activeCount = Cardinality({i \in 1..Len(nodes) : nodes[i].state = "active"})
            /\ skills.plannedCount = Cardinality({i \in 1..Len(nodes) : nodes[i].state = "planned"})
            /\ skills.lockedCount = Cardinality({i \in 1..Len(nodes) : nodes[i].state = "locked"})
            /\ skills.activeCount + skills.plannedCount + skills.lockedCount = 6

\* C40: release-operations is active on its two active dependencies, ui-systems is
\* planned, and memory-evolution, whose keyword occurs eight times, is locked at
\* tier 0 because ui-systems is not active.
C40_Witness ==
    /\ call_args.fn = "build_skills_payload"
    /\ call_result.done
    /\ call_args.weighted_text["memory"] = 8
    /\ call_result.skills.nodes[5].state = "active"
    /\ call_result.skills.nodes[3].state = "planned"
    /\ call_result.skills.nodes[6].state = "locked"
    /\ call_result.skills.nodes[6].currentTier = 0

============================================================================
